---- MODULE Spec2Model ----
(***************************************************************************)
(* tudu: the encrypted SQLite store (src/tudu/storage.py), the entity      *)
(* models (src/tudu/models.py), and the command line (src/tudu/cli.py) and *)
(* the terminal application (src/tudu/app.py) built on them.               *)
(*                                                                         *)
(* A table is the sequence of its rows in rowid order, which is the order  *)
(* a SELECT without ORDER BY scans them in.  Strings the code inspects     *)
(* character by character (project names, task titles) are sequences of    *)
(* one-character strings.  A value the code may compare with None is a     *)
(* record: an identifier is Str("p1"), the empty string Str(""), and a     *)
(* timestamp is Time(n), the ISO string of the instant n, so that ISO      *)
(* strings compare as their instants do.                                   *)
(***************************************************************************)
EXTENDS Integers, Sequences, FiniteSets, TLC

VARIABLES
    projects,   \* table projects(id, data), rows in rowid order
    tasks,      \* table tasks(id, project_id, data), rows in rowid order
    key,        \* Storage._key, the derived key of this handle
    data_dir,   \* the files .tudu_key and .tudu_salt of the data directory
    conn,       \* the open connection of a call in progress: its position and
                \* the tables as its uncommitted transaction has them, or None
    now,        \* the reading of datetime.now()
    nproj,      \* how many uuid4() values Project() has drawn
    ntask,      \* how many uuid4() values Task() has drawn
    ret,        \* the last call: [op, arg, val], val the value it returned
    allocated,  \* history: the <<project id, position>> pairs given to new tasks
    argv,       \* the parsed command line of the last process started, or None
    app         \* the TuduApp: _projects, _tasks, the selection indexes,
                \* the focus and whether the application runs

vars ==
    <<projects, tasks, key, data_dir, conn, now, nproj, ntask, ret, allocated,
      argv, app>>

----------------------------------------------------------------------------
\* Bounds of the model.

MaxProjects == 2
MaxTasks == 2
MaxSortTasks == 3
MaxCliTasks == 3
MaxAppTasks == 1

\* Python's None.
None == [none |-> TRUE]

\* The values uuid4() returns, in the order it returns them.
Str(s) == [str |-> s]
Time(n) == [iso |-> n]

ProjectUuids == <<Str("p1"), Str("p2"), Str("p3"), Str("p4")>>
TaskUuids == <<Str("t1"), Str("t2"), Str("t3"), Str("t4")>>

GeneratedProjectIds == {ProjectUuids[i] : i \in 1..nproj}
GeneratedTaskIds == {TaskUuids[i] : i \in 1..ntask}

\* Project names and task titles, as sequences of characters.
Names == {<<"t", "u">>, <<"T", "u">>, <<"t">>, <<"T">>}
Titles == {<<"a">>, <<"A", "b">>}
Points == {1, 5}
Times == {Time(0), Time(1)}
Positions == {0, 1}
\* The random IVs Fernet draws.
IVs == {0, 1}

----------------------------------------------------------------------------
\* models.py

\* TaskStatus: the members, and the value of each.
TaskStatusMembers == {"TODO", "IN_PROGRESS", "DONE", "CANCELLED"}

TaskStatusValue(s) ==
    CASE s = "TODO" -> "todo"
      [] s = "IN_PROGRESS" -> "in_progress"
      [] s = "DONE" -> "done"
      [] s = "CANCELLED" -> "cancelled"

\* TaskStatus(value): the member with that value.
TaskStatus(v) ==
    CHOOSE s \in TaskStatusMembers : TaskStatusValue(s) = v

\* str.lower() on the characters of the model.
LowerChar(c) ==
    CASE c = "T" -> "t"
      [] c = "U" -> "u"
      [] c = "A" -> "a"
      [] c = "B" -> "b"
      [] OTHER -> c

\* A lookup that compares names as they are written.
lower_as_written(s) ==
    s

lower(s) ==
    [i \in DOMAIN s |-> LowerChar(s[i])]

\* Priority: the members.
PriorityMembers == {"CRITICAL", "HIGH", "MEDIUM", "LOW", "TRIVIAL"}

\* A derivation whose comparisons are strict.
from_story_points_strict(points) ==
    IF points > 13 THEN "CRITICAL"
    ELSE IF points > 8 THEN "HIGH"
    ELSE IF points > 5 THEN "MEDIUM"
    ELSE IF points > 3 THEN "LOW"
    ELSE "TRIVIAL"

\* Priority.from_story_points
from_story_points(points) ==
    IF points >= 13 THEN "CRITICAL"
    ELSE IF points >= 8 THEN "HIGH"
    ELSE IF points >= 5 THEN "MEDIUM"
    ELSE IF points >= 3 THEN "LOW"
    ELSE "TRIVIAL"

\* Task.priority
priority(t) ==
    from_story_points(t.story_points)

\* Task(...): the dataclass with its defaults; id and the two timestamps are
\* the values the default factories produce.
Task(title, project_id, story_points, position, id, created) ==
    [ title |-> title, project_id |-> project_id, story_points |-> story_points,
      status |-> "TODO", description |-> <<>>, tags |-> <<>>, id |-> id,
      created_at |-> created, updated_at |-> created, completed_at |-> None,
      position |-> position ]

is_complete(t) ==
    t.status \in {"DONE", "CANCELLED"}

\* A toggle that completes the task whatever its status.
toggle_status_completing(t, clock) ==
    [t EXCEPT !.status = "DONE", !.completed_at = clock, !.updated_at = clock]

\* toggle_status: the task after the call, datetime.now() reading clock.
toggle_status(t, clock) ==
    IF t.status = "DONE"
    THEN [t EXCEPT !.status = "TODO", !.completed_at = None,
                   !.updated_at = clock]
    ELSE [t EXCEPT !.status = "DONE", !.completed_at = clock,
                   !.updated_at = clock]

\* A cycle of all four statuses.
cycle_through_cancelled(status) ==
    CASE status = "TODO" -> "IN_PROGRESS"
      [] status = "IN_PROGRESS" -> "DONE"
      [] status = "DONE" -> "CANCELLED"
      [] status = "CANCELLED" -> "TODO"

\* The dict "cycle" of cycle_status.
cycle(status) ==
    CASE status = "TODO" -> "IN_PROGRESS"
      [] status = "IN_PROGRESS" -> "DONE"
      [] status = "DONE" -> "TODO"
      [] status = "CANCELLED" -> "TODO"

\* cycle_status: the task after the call, datetime.now() reading clock.
cycle_status(t, clock) ==
    [t EXCEPT !.status = cycle(t.status),
              !.completed_at = IF cycle(t.status) = "DONE" THEN clock ELSE None,
              !.updated_at = clock]

TaskFields ==
    << "id", "title", "project_id", "story_points", "status", "description",
       "tags", "created_at", "updated_at", "completed_at", "position" >>

Task_to_dict(t) ==
    [ id |-> t.id, title |-> t.title, project_id |-> t.project_id,
      story_points |-> t.story_points, status |-> TaskStatusValue(t.status),
      description |-> t.description, tags |-> t.tags,
      created_at |-> t.created_at, updated_at |-> t.updated_at,
      completed_at |-> t.completed_at, position |-> t.position ]

\* dict.get(k, default)
Get(d, k, default) ==
    IF k \in DOMAIN d THEN d[k] ELSE default

\* A from_dict that leaves completed_at at its default.
Task_from_dict_uncompleted(data, clock) ==
    [ id |-> data["id"], title |-> data["title"], project_id |-> data["project_id"],
      story_points |-> Get(data, "story_points", 1),
      status |-> TaskStatus(Get(data, "status", "todo")),
      description |-> Get(data, "description", <<>>),
      tags |-> Get(data, "tags", <<>>),
      created_at |-> Get(data, "created_at", clock),
      updated_at |-> Get(data, "updated_at", clock),
      completed_at |-> None,
      position |-> Get(data, "position", 0) ]

Task_from_dict(data, clock) ==
    [ id |-> data["id"], title |-> data["title"], project_id |-> data["project_id"],
      story_points |-> Get(data, "story_points", 1),
      status |-> TaskStatus(Get(data, "status", "todo")),
      description |-> Get(data, "description", <<>>),
      tags |-> Get(data, "tags", <<>>),
      created_at |-> Get(data, "created_at", clock),
      updated_at |-> Get(data, "updated_at", clock),
      completed_at |-> Get(data, "completed_at", None),
      position |-> Get(data, "position", 0) ]

DefaultColor == <<"#", "6", "1", "a", "f", "e", "f">>

\* Project(name=...): the dataclass with its defaults.
Project(name, id, created) ==
    [ name |-> name, description |-> <<>>, id |-> id, created_at |-> created,
      color |-> DefaultColor ]

ProjectFields ==
    << "id", "name", "description", "created_at", "color" >>

Project_to_dict(p) ==
    [ id |-> p.id, name |-> p.name, description |-> p.description,
      created_at |-> p.created_at, color |-> p.color ]

Project_from_dict(data, clock) ==
    [ id |-> data["id"], name |-> data["name"],
      description |-> Get(data, "description", <<>>),
      created_at |-> Get(data, "created_at", clock),
      color |-> Get(data, "color", DefaultColor) ]

----------------------------------------------------------------------------
\* storage.py: the key

\* The values Fernet.generate_key() and os.urandom(16) return, as bytes.
MasterKeys == {<<"m", "1">>, <<"m", "2">>}
Salts == {<<"s", "1">>, <<"s", "2">>}

\* A file of the data directory: absent, or its bytes.
Absent == [absent |-> TRUE]
File(bytes) == [bytes |-> bytes]

\* base64.urlsafe_b64encode(PBKDF2HMAC(salt=salt).derive(master_key)): a
\* function of the two byte strings, different for different arguments.
PBKDF2HMAC(master_key, salt) ==
    [master |-> master_key, salt |-> salt]

Keys == {PBKDF2HMAC(m, s) : m \in MasterKeys, s \in Salts}

\* A _get_or_create_key that generates a master key and a salt whether or
\* not the files exist.
_get_or_create_key_regenerating(dir, generated_key, generated_salt) ==
    [ dir |-> [key_file |-> File(generated_key),
               salt_file |-> File(generated_salt)],
      key |-> PBKDF2HMAC(generated_key, generated_salt),
      wrote_key |-> TRUE, wrote_salt |-> TRUE ]

\* _get_or_create_key(data_dir): the directory after the call, the key it
\* returns and which files it wrote; generated_key and generated_salt are
\* what the random generators return if called.
_get_or_create_key(dir, generated_key, generated_salt) ==
    LET master_key == IF dir.key_file # Absent THEN dir.key_file.bytes
                      ELSE generated_key
        salt == IF dir.salt_file # Absent THEN dir.salt_file.bytes
                ELSE generated_salt
    IN  [ dir |-> [key_file |-> File(master_key), salt_file |-> File(salt)],
          key |-> PBKDF2HMAC(master_key, salt),
          wrote_key |-> dir.key_file = Absent,
          wrote_salt |-> dir.salt_file = Absent ]

----------------------------------------------------------------------------
\* storage.py: the codec

\* An encoder whose text is cut before the last member.
json_dumps_without_last(d, fields) ==
    [i \in 1..(Len(fields) - 1) |-> <<fields[i], d[fields[i]]>>]

\* json.dumps(dict): the text, as the sequence of its key/value members in
\* the dict's insertion order.
json_dumps(d, fields) ==
    [i \in 1..Len(fields) |-> <<fields[i], d[fields[i]]>>]

\* json.loads(text): the dict of the members.
json_loads(s) ==
    [k \in {s[i][1] : i \in DOMAIN s} |->
        s[CHOOSE i \in DOMAIN s : s[i][1] = k][2]]

\* The exception a failed decryption raises, as the outcome of the call.
DecryptError == [error |-> "DecryptError"]

\* A Fernet token is the base64 text of version, timestamp, IV, AES-CBC
\* ciphertext and HMAC.  The ciphertext and the HMAC are kept as what they
\* were computed from: two of them are equal exactly when their arguments
\* are.
AES(k, iv, plaintext) ==
    [enc_key |-> k, enc_iv |-> iv, pt |-> plaintext]

HMAC(k, iv, ct) ==
    [mac_key |-> k, iv |-> iv, ct |-> ct]

\* base64.urlsafe_b64decode(text) raises binascii.Error.  The text is kept
\* as the bytes it decodes to and its spelling: "canonical" as
\* urlsafe_b64encode writes it, "respelled" with "+" for "-", "/" for "_"
\* or other unused bits in the last character before the padding (the
\* decoder reads it as the same bytes), "invalid" with a character the
\* decoder drops (the padding is then incorrect).
b64_decodes(blob) ==
    blob.b64 \in {"canonical", "respelled"}

\* A decryption that does not verify the HMAC.
Authentic_unverified(k, blob) ==
    b64_decodes(blob) /\ blob.ct.enc_key = k

\* Fernet(k).decrypt(token) returns the plaintext rather than raising
\* InvalidToken: the text decodes and the HMAC over the IV and the
\* ciphertext verifies under k.
Authentic(k, blob) ==
    b64_decodes(blob) /\ blob.hmac = HMAC(k, blob.iv, blob.ct)

\* Fernet(k).encrypt(bytes) with the random IV iv.
Fernet_encrypt(k, iv, plaintext) ==
    [ iv |-> iv, ct |-> AES(k, iv, plaintext),
      hmac |-> HMAC(k, iv, AES(k, iv, plaintext)), b64 |-> "canonical" ]

_encrypt(k, iv, data, fields) ==
    Fernet_encrypt(k, iv, json_dumps(data, fields))

_decrypt(k, blob) ==
    IF Authentic(k, blob) THEN json_loads(blob.ct.pt) ELSE DecryptError

----------------------------------------------------------------------------
\* storage.py: the tables and the reads

\* "if project_id:" and "if not matches:": Python truthiness of an
\* Optional[str].
Truthy(x) ==
    x # None /\ x # Str("")

\* A plain INSERT into a table without the primary key.
InsertOrReplace_keeping(rows, row) ==
    Append(rows, row)

\* INSERT OR REPLACE INTO t ... : the row with the same primary key, if any,
\* is deleted and the new row gets the next rowid.
InsertOrReplace(rows, row) ==
    Append(SelectSeq(rows, LAMBDA r : r.id # row.id), row)

\* A DELETE without its WHERE clause.
DeleteById_all(rows, id) ==
    <<>>

\* DELETE FROM t WHERE id = ?
DeleteById(rows, id) ==
    SelectSeq(rows, LAMBDA r : r.id # id)

\* A delete_project without its first statement.
DeleteByProject_skipped(rows, project_id) ==
    rows

\* DELETE FROM tasks WHERE project_id = ?
DeleteByProject(rows, project_id) ==
    SelectSeq(rows, LAMBDA r : r.project_id # project_id)

\* [X.from_dict(self._decrypt(row[0])) for row in rows]: the first row that
\* does not decrypt raises out of the comprehension.
Decrypts(rows) ==
    \A i \in DOMAIN rows : Authentic(key, rows[i].data)

DecodeProjectRows(rows) ==
    IF ~Decrypts(rows) THEN DecryptError
    ELSE [i \in DOMAIN rows |-> Project_from_dict(_decrypt(key, rows[i].data), now)]

DecodeTaskRows(rows) ==
    IF ~Decrypts(rows) THEN DecryptError
    ELSE [i \in DOMAIN rows |-> Task_from_dict(_decrypt(key, rows[i].data), now)]

\* A get_project whose SELECT has no WHERE clause.
get_project_any(project_id) ==
    IF projects = <<>> THEN None
    ELSE IF ~Decrypts(projects) THEN DecryptError
    ELSE Project_from_dict(_decrypt(key, projects[1].data), now)

\* SELECT data FROM projects WHERE id = ?, fetchone()
get_project(project_id) ==
    LET rows == SelectSeq(projects, LAMBDA r : r.id = project_id)
    IN  IF rows = <<>> THEN None
        ELSE IF ~Decrypts(rows) THEN DecryptError
        ELSE Project_from_dict(_decrypt(key, rows[1].data), now)

list_projects ==
    DecodeProjectRows(projects)

\* The first project, in list order, whose lowered name is the lowered
\* argument.
get_project_by_name(name) ==
    LET ps == list_projects
    IN  IF ~Decrypts(projects) THEN DecryptError
        ELSE IF \E i \in DOMAIN ps : lower(ps[i].name) = lower(name)
        THEN ps[CHOOSE i \in DOMAIN ps :
                    /\ lower(ps[i].name) = lower(name)
                    /\ \A j \in 1..(i - 1) : lower(ps[j].name) # lower(name)]
        ELSE None

get_task(task_id) ==
    LET rows == SelectSeq(tasks, LAMBDA r : r.id = task_id)
    IN  IF rows = <<>> THEN None
        ELSE IF ~Decrypts(rows) THEN DecryptError
        ELSE Task_from_dict(_decrypt(key, rows[1].data), now)

\* The key with the story points not negated.
SortKey_ascending(t) ==
    << IF is_complete(t) THEN 1 ELSE 0, t.story_points, t.position,
       t.created_at.iso >>

\* key=lambda t: (t.is_complete, -t.story_points, t.position, t.created_at);
\* False < True as 0 < 1.
SortKey(t) ==
    << IF is_complete(t) THEN 1 ELSE 0, 0 - t.story_points, t.position,
       t.created_at.iso >>

\* Python's tuple comparison a < b on tuples of equal length.
RECURSIVE TupleLess(_, _)
TupleLess(a, b) ==
    IF a = <<>> THEN FALSE
    ELSE IF Head(a) # Head(b) THEN Head(a) < Head(b)
    ELSE TupleLess(Tail(a), Tail(b))

\* list.sort(key=...): stable, so an element goes after every element
\* already placed whose key is not greater than its own.
RECURSIVE StableInsert(_, _)
StableInsert(sorted, x) ==
    IF sorted = <<>> THEN <<x>>
    ELSE IF TupleLess(SortKey(x), SortKey(Head(sorted)))
    THEN <<x>> \o sorted
    ELSE <<Head(sorted)>> \o StableInsert(Tail(sorted), x)

RECURSIVE StableSort(_)
StableSort(s) ==
    IF s = <<>> THEN <<>>
    ELSE StableInsert(StableSort(SubSeq(s, 1, Len(s) - 1)), s[Len(s)])

\* The rows list_tasks selects.
TaskRows(project_id) ==
    IF Truthy(project_id)
    THEN SelectSeq(tasks, LAMBDA r : r.project_id = project_id)
    ELSE tasks

list_tasks(project_id, sort_by_points) ==
    LET ts == DecodeTaskRows(TaskRows(project_id))
    IN  IF ~Decrypts(TaskRows(project_id)) THEN DecryptError
        ELSE IF sort_by_points THEN StableSort(ts)
        ELSE ts

\* The position of the first task of the list.
MaxPosition_first(ts) ==
    ts[1].position

\* max(t.position for t in tasks)
MaxPosition(ts) ==
    CHOOSE m \in {ts[i].position : i \in DOMAIN ts} :
        \A i \in DOMAIN ts : ts[i].position <= m

\* The number of the project's tasks as the next position.
get_next_position_count(project_id) ==
    LET ts == list_tasks(project_id, FALSE)
    IN  IF ~Decrypts(TaskRows(project_id)) THEN DecryptError
        ELSE Len(ts)

get_next_position(project_id) ==
    LET ts == list_tasks(project_id, FALSE)
    IN  IF ~Decrypts(TaskRows(project_id)) THEN DecryptError
        ELSE IF ts = <<>> THEN 0
        ELSE MaxPosition(ts) + 1

\* sum(...) of a generator, given the sequence of its values
RECURSIVE Sum(_)
Sum(ns) ==
    IF ns = <<>> THEN 0 ELSE Head(ns) + Sum(Tail(ns))

\* Statistics that count every complete task, CANCELLED included, as done.
get_project_stats_complete(project_id) ==
    LET ts == list_tasks(project_id, FALSE)
        isDone == SelectSeq(ts, LAMBDA t : is_complete(t))
        isInProgress ==
            SelectSeq(ts, LAMBDA t : TaskStatusValue(t.status) = "in_progress")
        total == Len(ts)
        done == Sum([i \in DOMAIN isDone |-> 1])
        in_progress == Sum([i \in DOMAIN isInProgress |-> 1])
        total_points == Sum([i \in DOMAIN ts |-> ts[i].story_points])
        done_points == Sum([i \in DOMAIN isDone |-> isDone[i].story_points])
    IN  IF ~Decrypts(TaskRows(project_id)) THEN DecryptError
        ELSE [ total_tasks |-> total, done_tasks |-> done,
               in_progress_tasks |-> in_progress,
               todo_tasks |-> total - done - in_progress,
               total_points |-> total_points, done_points |-> done_points,
               completion_pct |-> IF total_points # 0
                                  THEN <<done_points * 100, total_points>>
                                  ELSE <<0, 1>> ]

\* completion_pct is a float; the model keeps it as the exact fraction
\* <<numerator, denominator>> of done_points * 100 over total_points, and as
\* <<0, 1>> when the code returns the integer 0.
get_project_stats(project_id) ==
    LET ts == list_tasks(project_id, FALSE)
        isDone == SelectSeq(ts, LAMBDA t : TaskStatusValue(t.status) = "done")
        isInProgress ==
            SelectSeq(ts, LAMBDA t : TaskStatusValue(t.status) = "in_progress")
        total == Len(ts)
        done == Sum([i \in DOMAIN isDone |-> 1])
        in_progress == Sum([i \in DOMAIN isInProgress |-> 1])
        total_points == Sum([i \in DOMAIN ts |-> ts[i].story_points])
        done_points == Sum([i \in DOMAIN isDone |-> isDone[i].story_points])
    IN  IF ~Decrypts(TaskRows(project_id)) THEN DecryptError
        ELSE [ total_tasks |-> total, done_tasks |-> done,
               in_progress_tasks |-> in_progress,
               todo_tasks |-> total - done - in_progress,
               total_points |-> total_points, done_points |-> done_points,
               completion_pct |-> IF total_points # 0
                                  THEN <<done_points * 100, total_points>>
                                  ELSE <<0, 1>> ]

----------------------------------------------------------------------------
\* storage.py: the writes.  Each is one transaction: the connection's
\* context manager commits on exit.

\* The projects table once save_project's INSERT OR REPLACE has run.
projects_saved(project, iv) ==
    InsertOrReplace(projects,
        [ id |-> project.id,
          data |-> _encrypt(key, iv, Project_to_dict(project), ProjectFields) ])

\* A save_task that, for an id already stored, writes the data column of
\* the row only.
tasks_saved_data_only(task, iv) ==
    LET data == _encrypt(key, iv, Task_to_dict(task), TaskFields)
    IN  IF \E i \in DOMAIN tasks : tasks[i].id = task.id
        THEN [i \in DOMAIN tasks |->
                 IF tasks[i].id = task.id THEN [tasks[i] EXCEPT !.data = data]
                 ELSE tasks[i]]
        ELSE Append(tasks, [id |-> task.id, project_id |-> task.project_id,
                            data |-> data])

\* The tasks table once save_task's INSERT OR REPLACE has run.
tasks_saved(task, iv) ==
    InsertOrReplace(tasks,
        [ id |-> task.id, project_id |-> task.project_id,
          data |-> _encrypt(key, iv, Task_to_dict(task), TaskFields) ])

save_project(project, iv) ==
    /\ projects' = projects_saved(project, iv)
    /\ ret' = [op |-> "save_project", arg |-> project.id, val |-> project]
    /\ UNCHANGED <<tasks, key, conn, data_dir, argv, app, now, allocated>>

save_task(task, iv) ==
    /\ tasks' = tasks_saved(task, iv)
    /\ ret' = [op |-> "save_task", arg |-> task.id, val |-> task]
    /\ UNCHANGED <<projects, key, conn, data_dir, argv, app, now, allocated>>

delete_project(project_id) ==
    /\ tasks' = DeleteByProject(tasks, project_id)
    /\ projects' = DeleteById(projects, project_id)
    /\ ret' = [op |-> "delete_project", arg |-> project_id, val |-> None]
    /\ UNCHANGED <<key, conn, data_dir, argv, app, now, nproj, ntask, allocated>>

delete_task(task_id) ==
    /\ tasks' = DeleteById(tasks, task_id)
    /\ ret' = [op |-> "delete_task", arg |-> task_id, val |-> None]
    /\ UNCHANGED <<projects, key, conn, data_dir, argv, app, now, nproj, ntask, allocated>>

\* A get_or_create_project that creates without looking the name up.
get_or_create_project_unchecked(name, iv) ==
    LET created == Project(name, ProjectUuids[nproj + 1], now)
    IN  /\ nproj < MaxProjects
        /\ projects' = projects_saved(created, iv)
        /\ nproj' = nproj + 1
        /\ ret' = [op |-> "get_or_create_project", arg |-> name, val |-> created]
        /\ UNCHANGED <<tasks, key, conn, data_dir, argv, app, now, ntask, allocated>>

\* Project(name=name) draws the next uuid4() and reads the clock.
get_or_create_project(name, iv) ==
    LET project == get_project_by_name(name)
        created == Project(name, ProjectUuids[nproj + 1], now)
    IN  IF project = None
        THEN /\ nproj < MaxProjects
             /\ projects' = projects_saved(created, iv)
             /\ nproj' = nproj + 1
             /\ ret' = [op |-> "get_or_create_project", arg |-> name, val |-> created]
             /\ UNCHANGED <<tasks, key, conn, data_dir, argv, app, now, ntask, allocated>>
        ELSE /\ ret' = [op |-> "get_or_create_project", arg |-> name, val |-> project]
             /\ UNCHANGED <<projects, tasks, key, conn, data_dir, argv, app, now, nproj, ntask, allocated>>

\* delete_project statement by statement.  sqlite3 opens a transaction
\* before the first DELETE; the "with" block commits it when the block ends
\* and rolls it back when an exception leaves the block, and a transaction
\* of a process that dies is rolled back by the next reader of the file.

\* A delete_project whose first statement deletes the project row.
FirstDelete_project(view, project_id) ==
    [view EXCEPT !.projects = DeleteById(view.projects, project_id)]

\* DELETE FROM tasks WHERE project_id = ?
FirstDelete(view, project_id) ==
    [view EXCEPT !.tasks = DeleteByProject(view.tasks, project_id)]

\* DELETE FROM projects WHERE id = ?
SecondDelete(view, project_id) ==
    [view EXCEPT !.projects = DeleteById(view.projects, project_id)]

\* self._connect()
delete_project_connect(project_id) ==
    /\ conn = None
    /\ conn' = [ call |-> "delete_project", arg |-> project_id,
                 pc |-> "connected", projects |-> projects, tasks |-> tasks ]
    /\ UNCHANGED <<projects, tasks, key, data_dir, argv, app, now, nproj, ntask, ret, allocated>>

delete_project_first ==
    /\ conn # None
    /\ conn.pc = "connected"
    /\ conn' = [FirstDelete(conn, conn.arg) EXCEPT !.pc = "tasks_deleted"]
    /\ UNCHANGED <<projects, tasks, key, data_dir, argv, app, now, nproj, ntask, ret, allocated>>

delete_project_second ==
    /\ conn # None
    /\ conn.pc = "tasks_deleted"
    /\ conn' = [SecondDelete(conn, conn.arg) EXCEPT !.pc = "project_deleted"]
    /\ UNCHANGED <<projects, tasks, key, data_dir, argv, app, now, nproj, ntask, ret, allocated>>

\* The end of the "with" block: the transaction is committed; the handle is
\* taken to be finalized as the call returns.
delete_project_commit ==
    /\ conn # None
    /\ conn.pc = "project_deleted"
    /\ projects' = conn.projects
    /\ tasks' = conn.tasks
    /\ conn' = None
    /\ ret' = [op |-> "delete_project", arg |-> conn.arg, val |-> None]
    /\ UNCHANGED <<key, data_dir, argv, app, now, nproj, ntask, allocated>>

\* The call is interrupted (an exception, or the process dies): the
\* transaction is rolled back.
delete_project_interrupted ==
    /\ conn # None
    /\ conn' = None
    /\ ret' = [op |-> "interrupted", arg |-> conn.arg, val |-> conn.pc]
    /\ UNCHANGED <<projects, tasks, key, data_dir, argv, app, now, nproj, ntask, allocated>>

\* Storage(db_path): the key is read or created, the handle keeps it, and
\* the tables are created if they do not exist.
Storage__init__(generated_key, generated_salt) ==
    LET got == _get_or_create_key(data_dir, generated_key, generated_salt)
    IN  /\ data_dir' = got.dir
        /\ key' = got.key
        /\ ret' = [op |-> "Storage", arg |-> None,
                   val |-> [wrote_key |-> got.wrote_key,
                            wrote_salt |-> got.wrote_salt]]
        /\ UNCHANGED <<projects, tasks, conn, argv, app, now, nproj, ntask, allocated>>

----------------------------------------------------------------------------
\* cli.py

\* needle in hay, on strings
Contains(hay, needle) ==
    \E i \in 0..(Len(hay) - Len(needle)) :
        SubSeq(hay, i + 1, i + Len(needle)) = needle

\* A search that stops at the first task whose title holds the query.
Matches_first(query) ==
    LET found == SelectSeq(list_tasks(None, FALSE),
                           LAMBDA t : Contains(lower(t.title), lower(query)))
    IN  IF found = <<>> THEN <<>> ELSE <<found[1]>>

\* [t for t in tasks if query in t.title.lower()], query already lowered
Matches(query) ==
    SelectSeq(list_tasks(None, FALSE),
              LAMBDA t : Contains(lower(t.title), lower(query)))

\* cmd_add_task: get_or_create_project, get_next_position, Task(...),
\* save_task.
cmd_add_task(name, title, story_points, iv) ==
    LET found == get_project_by_name(name)
        project == IF found = None
                   THEN Project(name, ProjectUuids[nproj + 1], now)
                   ELSE found
        position == get_next_position(project.id)
        task == Task(title, project.id, story_points, position,
                     TaskUuids[ntask + 1], now)
    IN  /\ found = None => nproj < MaxProjects
        /\ projects' = IF found = None THEN projects_saved(project, iv) ELSE projects
        /\ nproj' = IF found = None THEN nproj + 1 ELSE nproj
        /\ tasks' = tasks_saved(task, iv)
        /\ ntask' = ntask + 1
        /\ allocated' = allocated \cup {<<project.id, position>>}
        /\ ret' = [op |-> "cmd_add_task", arg |-> task.id, val |-> None]
        /\ UNCHANGED <<key, conn, data_dir, argv, app, now>>

\* cmd_complete_task, run at the instant clock: exit status 1 unless exactly
\* one title matches.  val holds the exit status, the task matched and the
\* task saved.
cmd_complete_task(query, clock, iv) ==
    LET matches == Matches(query)
    IN  IF Len(matches) # 1
        THEN /\ ret' = [op |-> "cmd_complete_task", arg |-> query,
                        val |-> [exit |-> 1, task |-> None, saved |-> None]]
             /\ UNCHANGED <<projects, tasks, key, conn, data_dir, argv, app, now, nproj, ntask, allocated>>
        ELSE /\ tasks' = tasks_saved(toggle_status(matches[1], clock), iv)
             /\ now' = clock
             /\ ret' = [op |-> "cmd_complete_task", arg |-> query,
                        val |-> [exit |-> 0, task |-> matches[1],
                                 saved |-> toggle_status(matches[1], clock)]]
             /\ UNCHANGED <<projects, key, conn, data_dir, argv, app, nproj, ntask, allocated>>

\* cmd_delete_task: exit status 1 unless exactly one title matches.
cmd_delete_task(query) ==
    LET matches == Matches(query)
    IN  IF Len(matches) # 1
        THEN /\ ret' = [op |-> "cmd_delete_task", arg |-> query, val |-> 1]
             /\ UNCHANGED <<projects, tasks, key, conn, data_dir, argv, app, now, nproj, ntask, allocated>>
        ELSE /\ tasks' = DeleteById(tasks, matches[1].id)
             /\ ret' = [op |-> "cmd_delete_task", arg |-> query, val |-> 0]
             /\ UNCHANGED <<projects, key, conn, data_dir, argv, app, now, nproj, ntask, allocated>>

\* cmd_list_tasks: prints the tasks; exit status 1 when --project names no
\* stored project.
cmd_list_tasks(project) ==
    /\ ret' = [op |-> "cmd_list_tasks", arg |-> project,
               val |-> IF project # None /\ project # Str(<<>>)
                          /\ get_project_by_name(project.str) = None
                       THEN 1 ELSE 0]
    /\ UNCHANGED <<projects, tasks, key, conn, data_dir, argv, app, now, nproj, ntask, allocated>>

\* cmd_list_projects: prints the projects and their statistics.
cmd_list_projects ==
    /\ ret' = [op |-> "cmd_list_projects", arg |-> None, val |-> 0]
    /\ UNCHANGED <<projects, tasks, key, conn, data_dir, argv, app, now, nproj, ntask, allocated>>

\* parser.parse_args(): a string flag that is not on the command line is
\* None, a flag given with an empty value is the empty string.
parse_args(args) ==
    /\ argv' = args
    /\ ret' = [op |-> "parse_args", arg |-> None, val |-> None]
    /\ UNCHANGED <<projects, tasks, key, conn, data_dir, app, now, nproj, ntask, allocated>>

\* Python truthiness of an Optional[str] of the command line.
TruthyArg(x) ==
    x # None /\ x # Str(<<>>)

\* any([args.add_task, args.list, args.projects, args.complete,
\*      args.delete_task])
has_action(args) ==
    \/ TruthyArg(args.add_task)
    \/ args.list
    \/ args.projects
    \/ TruthyArg(args.complete)
    \/ TruthyArg(args.delete_task)

\* app.py: the state of TuduApp and the methods that load it.  Indexes count
\* from 0 as in Python; a list is read at index + 1.

\* TuduApp(): the reactive attributes at their defaults and the lists of
\* __init__.  The highlight of the sidebar is the state of its ListView and
\* is not kept here.
TuduApp ==
    [ _projects |-> <<>>, _tasks |-> <<>>,
      current_project_idx |-> 0, current_task_idx |-> 0,
      focus_on_tasks |-> FALSE, running |-> FALSE ]

\* storage.list_tasks(project_id=...) on the rows of the tasks table given:
\* the rows of the project, decoded and sorted.
Listing(rows, project_id) ==
    LET selected == SelectSeq(rows, LAMBDA r : r.project_id = project_id)
    IN  IF ~Decrypts(selected) THEN DecryptError
        ELSE StableSort(DecodeTaskRows(selected))

\* storage.list_projects() on the rows of the projects table given.
Listed(rows) == DecodeProjectRows(rows)

\* max(0, len(xs) - 1)
LastIndex(xs) == IF Len(xs) = 0 THEN 0 ELSE Len(xs) - 1

\* _refresh_project_list: the sidebar is cleared and rebuilt and the project
\* index is brought into range.
_refresh_project_list(a) ==
    IF a._projects = <<>> THEN a
    ELSE [a EXCEPT !.current_project_idx =
                      IF a.current_project_idx >= Len(a._projects)
                      THEN LastIndex(a._projects)
                      ELSE a.current_project_idx]

\* A _load_tasks without the lines under "Ensure valid index".
_load_tasks_unclamped(a, rows) ==
    IF a._projects = <<>> THEN [a EXCEPT !._tasks = <<>>]
    ELSE [a EXCEPT !._tasks =
              Listing(rows, a._projects[a.current_project_idx + 1].id)]

\* _load_tasks on the rows of the tasks table given: the tasks of the
\* selected project; the task index is brought into range unless the list
\* is empty.
_load_tasks(a, rows) ==
    IF a._projects = <<>> THEN [a EXCEPT !._tasks = <<>>]
    ELSE LET project == a._projects[a.current_project_idx + 1]
             loaded == Listing(rows, project.id)
         IN  IF loaded = <<>> THEN [a EXCEPT !._tasks = <<>>]
             ELSE [a EXCEPT !._tasks = loaded,
                            !.current_task_idx =
                                IF a.current_task_idx >= Len(loaded)
                                THEN LastIndex(loaded)
                                ELSE a.current_task_idx]

\* _load_data: list_projects(), _refresh_project_list(), _load_tasks().
_load_data(a, listed, rows) ==
    _load_tasks(_refresh_project_list([a EXCEPT !._projects = listed]), rows)

\* on_mount of a new TuduApp.
on_mount(listed, rows) ==
    _load_data([TuduApp EXCEPT !.running = TRUE], listed, rows)

\* run_tui(): the application starts, mounts and waits for a key.
run_tui ==
    /\ ret' = [op |-> "run_tui", arg |-> None, val |-> None]
    /\ app' = on_mount(Listed(projects), tasks)
    /\ UNCHANGED <<projects, tasks, key, conn, data_dir, argv, now, nproj, ntask, allocated>>

\* main() after the arguments are parsed: run_cli dispatches to the first
\* command whose flag is set, in the order of its if/elif chain, and
\* main calls run_tui when run_cli returns False.
main(clock, iv) ==
    IF ~has_action(argv) THEN run_tui
    ELSE IF TruthyArg(argv.add_task)
    THEN IF ~TruthyArg(argv.project)
         THEN /\ ret' = [op |-> "run_cli", arg |-> None, val |-> 1]
              /\ UNCHANGED <<projects, tasks, key, conn, data_dir, argv, app, now, nproj, ntask, allocated>>
         ELSE cmd_add_task(argv.project.str, argv.add_task.str,
                           argv.story_points, iv)
    ELSE IF argv.list THEN cmd_list_tasks(argv.project)
    ELSE IF argv.projects THEN cmd_list_projects
    ELSE IF TruthyArg(argv.complete)
    THEN cmd_complete_task(argv.complete.str, clock, iv)
    ELSE cmd_delete_task(argv.delete_task.str)

----------------------------------------------------------------------------
\* app.py: the dialogs and the handlers of TuduApp.  A handler is given the
\* task or project it works on, the one the indexes of the application
\* select; after a write it reloads the lists of the application from the
\* store as the write leaves it.

\* str.strip() on the characters of the model.
RECURSIVE strip(_)
strip(s) ==
    IF s = <<>> THEN <<>>
    ELSE IF Head(s) = " " THEN strip(Tail(s))
    ELSE IF s[Len(s)] = " " THEN strip(SubSeq(s, 1, Len(s) - 1))
    ELSE s

\* int(text): the decimal digits of the model, with an optional sign.
IsDigit(c) ==
    c \in {"0", "1", "5"}

DigitValue(c) ==
    CASE c = "0" -> 0
      [] c = "1" -> 1
      [] c = "5" -> 5

RECURSIVE Digits(_)
Digits(s) ==
    IF s = <<>> THEN 0
    ELSE Digits(SubSeq(s, 1, Len(s) - 1)) * 10 + DigitValue(s[Len(s)])

\* int(text) returns a value rather than raising ValueError.
IsInt(s) ==
    \/ s # <<>> /\ \A i \in DOMAIN s : IsDigit(s[i])
    \/ Len(s) >= 2 /\ s[1] = "-" /\ \A i \in 2..Len(s) : IsDigit(s[i])

int(s) ==
    IF s[1] = "-" THEN 0 - Digits(Tail(s)) ELSE Digits(s)

\* max(1, story_points)
Max1(n) ==
    IF n < 1 THEN 1 ELSE n

\* Select.BLANK, the value of a Select with nothing chosen.
SelectBLANK == [blank |-> TRUE]

\* AddTaskScreen._submit_task: the Task the dialog is dismissed with; the
\* caller has checked that the stripped title is not empty.
AddTaskScreen_submit_task(project, title_input, sp_input, id, clock) ==
    LET sp_text == strip(sp_input)
        story_points == IF sp_text # <<>> /\ IsInt(sp_text) THEN int(sp_text)
                        ELSE 1
    IN  Task(strip(title_input), project.id, Max1(story_points), 0, id, clock)

\* EditTaskScreen._submit_task: the task the dialog is dismissed with.
EditTaskScreen_submit_task(task, title_input, sp_input, status_val) ==
    LET sp_text == strip(sp_input)
        story_points == IF sp_text # <<>> /\ IsInt(sp_text) THEN int(sp_text)
                        ELSE task.story_points
    IN  [task EXCEPT !.title = strip(title_input),
                     !.story_points = Max1(story_points),
                     !.status = IF status_val # Str("") /\ status_val # SelectBLANK
                                THEN TaskStatus(status_val.str)
                                ELSE task.status]

\* _load_tasks() and _refresh_project_list() on the store as the step
\* leaves it, the tail of every handler that saves or deletes a task.
Reloaded(a) == _refresh_project_list(_load_tasks(a, tasks'))

\* action_add_project with the dialog confirmed: save_project, _load_data,
\* the new last project selected, _load_tasks.
action_add_project(name, iv) ==
    /\ projects' = projects_saved(Project(name, ProjectUuids[nproj + 1], now), iv)
    /\ nproj' = nproj + 1
    /\ ret' = [op |-> "action_add_project", arg |-> ProjectUuids[nproj + 1],
               val |-> None]
    /\ UNCHANGED <<tasks, key, conn, data_dir, argv, now, ntask, allocated>>
    /\ app' = LET loaded == _load_data(app, Listed(projects'), tasks')
              IN  _load_tasks([loaded EXCEPT !.current_project_idx =
                                                Len(loaded._projects) - 1],
                              tasks')

\* An action_add_task that saves the task as the dialog made it, at
\* position 0.
action_add_task_unpositioned(project, title_input, sp_input, iv) ==
    LET task == AddTaskScreen_submit_task(project, title_input, sp_input,
                                          TaskUuids[ntask + 1], now)
    IN  /\ strip(title_input) # <<>>
        /\ tasks' = tasks_saved(task, iv)
        /\ ntask' = ntask + 1
        /\ allocated' = allocated \cup {<<project.id, task.position>>}
        /\ ret' = [op |-> "action_add_task", arg |-> task.id, val |-> None]
        /\ UNCHANGED <<projects, key, conn, data_dir, argv, now, nproj>>
        /\ app' = Reloaded(app)

\* action_add_task with the dialog submitted; an empty title keeps the
\* dialog open and stores nothing.
action_add_task(project, title_input, sp_input, iv) ==
    LET made == AddTaskScreen_submit_task(project, title_input, sp_input,
                                          TaskUuids[ntask + 1], now)
        position == get_next_position(project.id)
        task == [made EXCEPT !.position = position]
    IN  IF strip(title_input) = <<>>
        THEN /\ ret' = [op |-> "action_add_task", arg |-> None, val |-> None]
             /\ UNCHANGED <<projects, tasks, key, conn, data_dir, argv, app, now, nproj, ntask, allocated>>
        ELSE /\ tasks' = tasks_saved(task, iv)
             /\ ntask' = ntask + 1
             /\ allocated' = allocated \cup {<<project.id, position>>}
             /\ ret' = [op |-> "action_add_task", arg |-> task.id, val |-> None]
             /\ UNCHANGED <<projects, key, conn, data_dir, argv, now, nproj>>
             /\ app' = Reloaded(app)

\* action_edit_task with the dialog submitted.
action_edit_task(task, title_input, sp_input, status_val, iv) ==
    IF strip(title_input) = <<>>
    THEN /\ ret' = [op |-> "action_edit_task", arg |-> None, val |-> None]
         /\ UNCHANGED <<projects, tasks, key, conn, data_dir, argv, app, now, nproj, ntask, allocated>>
    ELSE /\ tasks' = tasks_saved(
                EditTaskScreen_submit_task(task, title_input, sp_input,
                                           status_val), iv)
         /\ ret' = [op |-> "action_edit_task", arg |-> task.id, val |-> None]
         /\ UNCHANGED <<projects, key, conn, data_dir, argv, now, nproj, ntask, allocated>>
         /\ app' = Reloaded(app)

\* action_toggle_task, run at the instant clock.
action_toggle_task(task, clock, iv) ==
    /\ tasks' = tasks_saved(toggle_status(task, clock), iv)
    /\ now' = clock
    /\ ret' = [op |-> "action_toggle_task", arg |-> task.id, val |-> None]
    /\ UNCHANGED <<projects, key, conn, data_dir, argv, nproj, ntask, allocated>>
    /\ app' = Reloaded(app)

\* action_cycle_task, run at the instant clock.
action_cycle_task(task, clock, iv) ==
    /\ tasks' = tasks_saved(cycle_status(task, clock), iv)
    /\ now' = clock
    /\ ret' = [op |-> "action_cycle_task", arg |-> task.id, val |-> None]
    /\ UNCHANGED <<projects, key, conn, data_dir, argv, nproj, ntask, allocated>>
    /\ app' = Reloaded(app)

\* action_delete_task with the answer of the confirmation dialog; a
\* dialog dismissed without confirming calls nothing.
action_delete_task(task, confirmed) ==
    IF confirmed
    THEN /\ tasks' = DeleteById(tasks, task.id)
         /\ ret' = [op |-> "action_delete_task", arg |-> task.id, val |-> None]
         /\ UNCHANGED <<projects, key, conn, data_dir, argv, now, nproj, ntask, allocated>>
         /\ app' = Reloaded(app)
    ELSE UNCHANGED vars

\* action_delete_project with the answer of the confirmation dialog:
\* delete_project, current_project_idx = 0, _load_data.
action_delete_project(project, confirmed) ==
    IF confirmed
    THEN /\ tasks' = DeleteByProject(tasks, project.id)
         /\ projects' = DeleteById(projects, project.id)
         /\ ret' = [op |-> "action_delete_project", arg |-> project.id,
                    val |-> None]
         /\ UNCHANGED <<key, conn, data_dir, argv, now, nproj, ntask, allocated>>
         /\ app' = _load_data([app EXCEPT !.current_project_idx = 0],
                              Listed(projects'), tasks')
    ELSE UNCHANGED vars

\* The handlers below call the store for reading only and return nothing:
\* they leave the record of the last call.

\* on_project_selected for the sidebar item project-idx: another project
\* than the selected one is selected with its first task.
on_project_selected(idx) ==
    /\ app' = IF idx # app.current_project_idx
              THEN _load_tasks([app EXCEPT !.current_project_idx = idx,
                                           !.current_task_idx = 0], tasks)
              ELSE app
    /\ UNCHANGED <<projects, tasks, key, conn, data_dir, argv, now, nproj, ntask, ret, allocated>>

\* on_task_row_selected for the row of a task: the index of the first task
\* of _tasks with its id, if there is one.
on_task_row_selected(task) ==
    /\ app' = IF \E i \in DOMAIN app._tasks : app._tasks[i].id = task.id
              THEN [app EXCEPT !.current_task_idx =
                        (CHOOSE i \in DOMAIN app._tasks :
                            /\ app._tasks[i].id = task.id
                            /\ \A j \in 1..(i - 1) : app._tasks[j].id # task.id) - 1]
              ELSE app
    /\ UNCHANGED <<projects, tasks, key, conn, data_dir, argv, now, nproj, ntask, ret, allocated>>

\* action_cursor_down on the application a; with the focus on the sidebar
\* the key moves the highlight of the ListView only.
cursor_down(a) ==
    IF a.focus_on_tasks /\ a._tasks # <<>>
    THEN [a EXCEPT !.current_task_idx =
              IF a.current_task_idx + 1 < Len(a._tasks) - 1
              THEN a.current_task_idx + 1 ELSE Len(a._tasks) - 1]
    ELSE a

\* action_cursor_up on the application a.
cursor_up(a) ==
    IF a.focus_on_tasks /\ a._tasks # <<>>
    THEN [a EXCEPT !.current_task_idx =
              IF a.current_task_idx - 1 > 0 THEN a.current_task_idx - 1 ELSE 0]
    ELSE a

action_cursor_down ==
    /\ app' = cursor_down(app)
    /\ UNCHANGED <<projects, tasks, key, conn, data_dir, argv, now, nproj, ntask, ret, allocated>>

action_cursor_up ==
    /\ app' = cursor_up(app)
    /\ UNCHANGED <<projects, tasks, key, conn, data_dir, argv, now, nproj, ntask, ret, allocated>>

\* action_switch_focus: action_focus_sidebar or action_focus_tasks.
action_switch_focus ==
    /\ app' = [app EXCEPT !.focus_on_tasks = ~app.focus_on_tasks]
    /\ UNCHANGED <<projects, tasks, key, conn, data_dir, argv, now, nproj, ntask, ret, allocated>>

\* The application exits; its state goes with the process.
action_quit ==
    /\ app' = TuduApp
    /\ UNCHANGED <<projects, tasks, key, conn, data_dir, argv, now, nproj, ntask, ret, allocated>>

----------------------------------------------------------------------------
\* The store under any sequence of calls of its interface.

\* What the callers of this specification pass: the names of projects, the
\* titles of tasks, and the IV each encryption happens to draw.
StoreNames == {<<"t", "u">>, <<"t">>}
StoreIVs == {0}

Init ==
    /\ projects = <<>>
    /\ tasks = <<>>
    /\ data_dir = [key_file |-> File(<<"m", "1">>), salt_file |-> File(<<"s", "1">>)]
    /\ key = PBKDF2HMAC(<<"m", "1">>, <<"s", "1">>)
    /\ conn = None
    /\ argv = None
    /\ app = TuduApp
    /\ now = Time(0)
    /\ nproj = 0
    /\ ntask = 0
    /\ ret = [op |-> "init", arg |-> None, val |-> None]
    /\ allocated = {}

\* save_project(Project(name=...)) of a project just constructed.
SaveNewProject ==
    /\ nproj < MaxProjects
    /\ \E name \in StoreNames, iv \in StoreIVs :
          save_project(Project(name, ProjectUuids[nproj + 1], now), iv)
    /\ nproj' = nproj + 1
    /\ UNCHANGED ntask

\* save_project of a stored project read back and renamed.
SaveStoredProject ==
    /\ \E stored \in {list_projects[i] : i \in DOMAIN projects},
          name \in StoreNames, iv \in StoreIVs :
          save_project([stored EXCEPT !.name = name], iv)
    /\ UNCHANGED <<nproj, ntask>>

\* save_task(Task(...)) of a task just constructed, for any project id a
\* caller can hold.
SaveNewTask ==
    /\ ntask < MaxTasks
    /\ \E title \in Titles, project_id \in GeneratedProjectIds, iv \in StoreIVs :
          save_task(Task(title, project_id, 1, 0, TaskUuids[ntask + 1], now), iv)
    /\ ntask' = ntask + 1
    /\ UNCHANGED nproj

\* save_task of a stored task read back, retitled and moved.
SaveStoredTask ==
    /\ \E stored \in {list_tasks(None, FALSE)[i] : i \in DOMAIN tasks},
          title \in Titles, project_id \in GeneratedProjectIds, iv \in StoreIVs :
          save_task([stored EXCEPT !.title = title, !.project_id = project_id], iv)
    /\ UNCHANGED <<nproj, ntask>>

DeleteTask ==
    \E task_id \in GeneratedTaskIds : delete_task(task_id)

DeleteProject ==
    \E project_id \in GeneratedProjectIds : delete_project(project_id)

Next ==
    \/ SaveNewProject
    \/ SaveStoredProject
    \/ SaveNewTask
    \/ SaveStoredTask
    \/ DeleteTask
    \/ DeleteProject

Spec == Init /\ [][Next]_vars

----------------------------------------------------------------------------
\* The projects table under any sequence of calls that write it, the names
\* in both cases.

ProjectsSaveNew ==
    /\ nproj < MaxProjects
    /\ \E name \in Names, iv \in StoreIVs :
          save_project(Project(name, ProjectUuids[nproj + 1], now), iv)
    /\ nproj' = nproj + 1
    /\ UNCHANGED ntask

ProjectsSaveStored ==
    /\ \E i \in DOMAIN projects, name \in Names, iv \in StoreIVs :
          save_project([list_projects[i] EXCEPT !.name = name], iv)
    /\ UNCHANGED <<nproj, ntask>>

ProjectsDelete ==
    \E project_id \in GeneratedProjectIds : delete_project(project_id)

ProjectsGetOrCreate ==
    \E name \in Names, iv \in StoreIVs : get_or_create_project(name, iv)

NextProjects ==
    \/ ProjectsSaveNew
    \/ ProjectsSaveStored
    \/ ProjectsDelete
    \/ ProjectsGetOrCreate

SpecProjects == Init /\ [][NextProjects]_vars

----------------------------------------------------------------------------
\* One project and its tasks, as list_tasks sorts them.

SortStatuses == {"TODO", "DONE", "CANCELLED"}

SortNewProject ==
    /\ nproj = 0
    /\ \E iv \in StoreIVs :
          save_project(Project(<<"t">>, ProjectUuids[nproj + 1], now), iv)
    /\ nproj' = nproj + 1
    /\ UNCHANGED ntask

\* save_task(Task(..., status=..., position=...)) at the current instant.
SortNewTask ==
    /\ ntask < MaxSortTasks
    /\ \E status \in SortStatuses, story_points \in Points,
          position \in Positions, project_id \in GeneratedProjectIds,
          iv \in StoreIVs :
          save_task([Task(<<"a">>, project_id, story_points, position,
                          TaskUuids[ntask + 1], now)
                        EXCEPT !.status = status], iv)
    /\ ntask' = ntask + 1
    /\ UNCHANGED nproj

\* Time passes.
Tick ==
    /\ Time(now.iso + 1) \in Times
    /\ now' = Time(now.iso + 1)
    /\ UNCHANGED <<projects, tasks, key, conn, data_dir, argv, app, nproj, ntask, ret, allocated>>

NextSort ==
    \/ SortNewProject
    \/ SortNewTask
    \/ Tick

SpecSort == Init /\ [][NextSort]_vars

----------------------------------------------------------------------------
\* Projects and tasks of every status, as get_project_stats counts them.

StatsPoints == {3, 5}

StatsNewProject ==
    /\ nproj < MaxProjects
    /\ \E iv \in StoreIVs :
          save_project(Project(<<"t">>, ProjectUuids[nproj + 1], now), iv)
    /\ nproj' = nproj + 1
    /\ UNCHANGED ntask

StatsNewTask ==
    /\ ntask < MaxTasks
    /\ \E status \in TaskStatusMembers, story_points \in StatsPoints,
          project_id \in GeneratedProjectIds, iv \in StoreIVs :
          save_task([Task(<<"a">>, project_id, story_points, 0,
                          TaskUuids[ntask + 1], now)
                        EXCEPT !.status = status], iv)
    /\ ntask' = ntask + 1
    /\ UNCHANGED nproj

StatsDeleteTask ==
    \E task_id \in GeneratedTaskIds : delete_task(task_id)

NextStats ==
    \/ StatsNewProject
    \/ StatsNewTask
    \/ StatsDeleteTask

SpecStats == Init /\ [][NextStats]_vars

----------------------------------------------------------------------------
\* The command line: tasks are added by --add-task and deleted by
\* --delete-task.

CliNames == {<<"t", "u">>, <<"T", "u">>, <<"t">>}
CliQueries == {<<"a">>, <<"B">>, <<"a", "b">>}

CmdAddTask ==
    /\ ntask < MaxCliTasks
    /\ \E name \in CliNames, title \in Titles, iv \in StoreIVs :
          cmd_add_task(name, title, 1, iv)

CmdDeleteTask ==
    \E query \in CliQueries : cmd_delete_task(query)

NextCli ==
    \/ CmdAddTask
    \/ CmdDeleteTask

SpecCli == Init /\ [][NextCli]_vars

----------------------------------------------------------------------------
\* The application: tasks are added from the command line and from the
\* add-task dialog, and changed by the edit-task dialog and the toggle and
\* cycle keys.  A handler that stamps a task runs at a later instant than
\* the last reading of the clock.

AppClock == {Time(0), Time(1), Time(2)}
Later == {t \in AppClock : t.iso > now.iso}

AppTitleInputs == {<<" ", "a">>, <<"A", "b", " ">>, <<" ">>}
SpInputs == {<<>>, <<"0">>, <<"5">>, <<"x">>}
StatusVals ==
    {Str(TaskStatusValue(status)) : status \in TaskStatusMembers}
        \cup {SelectBLANK}

\* The projects the sidebar of the application can show as selected.
SelectedProjects ==
    {list_projects[i] : i \in DOMAIN list_projects}

\* The tasks the task list of the application can show as selected.
SelectedTasks ==
    UNION { {list_tasks(projects[i].id, TRUE)[j] :
                j \in DOMAIN list_tasks(projects[i].id, TRUE)} :
            i \in DOMAIN projects }

\* The first project, made in the add-project dialog.
AppAddProject ==
    /\ nproj = 0
    /\ \E iv \in StoreIVs : action_add_project(<<"t">>, iv)

\* tudu --project t --add-task TITLE --story-points N
AppCmdAddTask ==
    /\ ntask < MaxAppTasks
    /\ \E sp_text \in SpInputs, iv \in StoreIVs :
          /\ IsInt(sp_text)
          /\ cmd_add_task(<<"t">>, <<"a">>, int(sp_text), iv)

AppAddTask ==
    /\ ntask < MaxAppTasks
    /\ \E project \in SelectedProjects, title_input \in AppTitleInputs,
          sp_input \in SpInputs, iv \in StoreIVs :
          action_add_task(project, title_input, sp_input, iv)

AppEditTask ==
    \E task \in SelectedTasks, title_input \in AppTitleInputs,
       sp_input \in SpInputs, status_val \in StatusVals, iv \in StoreIVs :
        action_edit_task(task, title_input, sp_input, status_val, iv)

AppToggleTask ==
    \E task \in SelectedTasks, clock \in Later, iv \in StoreIVs :
        action_toggle_task(task, clock, iv)

AppCycleTask ==
    \E task \in SelectedTasks, clock \in Later, iv \in StoreIVs :
        action_cycle_task(task, clock, iv)

NextApp ==
    \/ AppAddProject
    \/ AppCmdAddTask
    \/ AppAddTask
    \/ AppEditTask
    \/ AppToggleTask
    \/ AppCycleTask

SpecApp == Init /\ [][NextApp]_vars

----------------------------------------------------------------------------
\* A data directory from its first use on: handles are constructed one
\* after another and projects are saved and deleted through the last one.

InitDir ==
    /\ projects = <<>>
    /\ tasks = <<>>
    /\ data_dir = [key_file |-> Absent, salt_file |-> Absent]
    /\ key = None
    /\ conn = None
    /\ argv = None
    /\ app = TuduApp
    /\ now = Time(0)
    /\ nproj = 0
    /\ ntask = 0
    /\ ret = [op |-> "init", arg |-> None, val |-> None]
    /\ allocated = {}

KeysConstruct ==
    \E generated_key \in MasterKeys, generated_salt \in Salts :
        Storage__init__(generated_key, generated_salt)

KeysSaveNew ==
    /\ key # None
    /\ ProjectsSaveNew

KeysDelete ==
    /\ key # None
    /\ ProjectsDelete

NextKeys ==
    \/ KeysConstruct
    \/ KeysSaveNew
    \/ KeysDelete

SpecKeys == InitDir /\ [][NextKeys]_vars

----------------------------------------------------------------------------
\* A data directory whose key files are removed or cut short between the
\* constructions of handles.

KeyFileNames == {"key_file", "salt_file"}

\* A file of the directory is deleted.
RemoveFile ==
    \E f \in KeyFileNames :
        /\ data_dir[f] # Absent
        /\ data_dir' = [data_dir EXCEPT ![f] = Absent]
        /\ ret' = [op |-> "remove", arg |-> f, val |-> None]
        /\ UNCHANGED <<projects, tasks, key, conn, argv, app, now, nproj, ntask, allocated>>

\* A file of the directory loses its last bytes.
TruncateFile ==
    \E f \in KeyFileNames :
        /\ data_dir[f] # Absent
        /\ \E n \in 0..(Len(data_dir[f].bytes) - 1) :
              data_dir' = [data_dir EXCEPT ![f] = File(SubSeq(data_dir[f].bytes, 1, n))]
        /\ ret' = [op |-> "truncate", arg |-> f, val |-> None]
        /\ UNCHANGED <<projects, tasks, key, conn, argv, app, now, nproj, ntask, allocated>>

NextKeyFiles ==
    \/ KeysConstruct
    \/ RemoveFile
    \/ TruncateFile

SpecKeyFiles == Init /\ [][NextKeyFiles]_vars

----------------------------------------------------------------------------
\* The codec on its own: a record is encrypted, the blob is changed or
\* not, the handle is the one that encrypted or another, and the blob is
\* decrypted.  ret.arg holds the record, the blob _encrypt produced and the
\* blob as it is now.

\* The dicts given to _encrypt, each with its keys in insertion order.
CodecRecords ==
    { [data |-> Task_to_dict(Task(<<"a">>, Str("p1"), 5, 0, Str("t1"), Time(0))),
       fields |-> TaskFields],
      [data |-> Project_to_dict(Project(<<"t">>, Str("p1"), Time(0))),
       fields |-> ProjectFields],
      [data |-> [id |-> None], fields |-> <<"id">>],
      [data |-> [tags |-> <<<<"a">>, <<>>>>, n |-> 0], fields |-> <<"tags", "n">>] }

InitCodec ==
    /\ projects = <<>>
    /\ tasks = <<>>
    /\ data_dir = [key_file |-> File(<<"m", "1">>), salt_file |-> File(<<"s", "1">>)]
    /\ key = PBKDF2HMAC(<<"m", "1">>, <<"s", "1">>)
    /\ conn = None
    /\ argv = None
    /\ app = TuduApp
    /\ now = Time(0)
    /\ nproj = 0
    /\ ntask = 0
    /\ \E r \in CodecRecords :
          ret = [op |-> "record",
                 arg |-> [record |-> r, produced |-> None, blob |-> None],
                 val |-> None]
    /\ allocated = {}

CodecEncrypt ==
    \E iv \in IVs :
        LET blob == _encrypt(key, iv, ret.arg.record.data, ret.arg.record.fields)
        IN  /\ ret' = [op |-> "_encrypt",
                       arg |-> [record |-> ret.arg.record, produced |-> blob,
                                blob |-> blob],
                       val |-> blob]
            /\ UNCHANGED <<projects, tasks, key, conn, data_dir, argv, app, now, nproj, ntask, allocated>>

\* The blobs that differ from a blob in one place: the IV, the ciphertext,
\* the HMAC (the changed bytes are the HMAC of nothing), or a character of
\* the text.
Tampered(blob) ==
    {[blob EXCEPT !.iv = iv] : iv \in IVs \ {blob.iv}}
        \cup {[blob EXCEPT !.ct.pt = <<>>]}
        \cup {[blob EXCEPT !.hmac = [flipped |-> TRUE]]}
        \cup {[blob EXCEPT !.b64 = b] : b \in {"respelled", "invalid"}}

\* The stored blob is changed in one place.
CodecTamper ==
    /\ ret.arg.blob # None
    /\ \E blob \in Tampered(ret.arg.blob) \ {ret.arg.blob} :
          ret' = [op |-> "tamper",
                  arg |-> [ret.arg EXCEPT !.blob = blob],
                  val |-> blob]
    /\ UNCHANGED <<projects, tasks, key, conn, data_dir, argv, app, now, nproj, ntask, allocated>>

\* A handle on a directory whose key files hold another master key or salt.
CodecOtherHandle ==
    /\ \E master_key \in MasterKeys, salt \in Salts :
          /\ PBKDF2HMAC(master_key, salt) # key
          /\ data_dir' = [key_file |-> File(master_key), salt_file |-> File(salt)]
          /\ key' = PBKDF2HMAC(master_key, salt)
    /\ ret' = [ret EXCEPT !.op = "Storage"]
    /\ UNCHANGED <<projects, tasks, conn, argv, app, now, nproj, ntask, allocated>>

CodecDecrypt ==
    /\ ret.arg.blob # None
    /\ ret' = [op |-> "_decrypt", arg |-> ret.arg,
               val |-> _decrypt(key, ret.arg.blob)]
    /\ UNCHANGED <<projects, tasks, key, conn, data_dir, argv, app, now, nproj, ntask, allocated>>

NextCodec ==
    \/ CodecEncrypt
    \/ CodecTamper
    \/ CodecOtherHandle
    \/ CodecDecrypt

SpecCodec == InitCodec /\ [][NextCodec]_vars

----------------------------------------------------------------------------
\* delete_project statement by statement, among saves of projects and
\* tasks made while no call is in progress.

DeleteSaveNewProject ==
    /\ conn = None
    /\ SaveNewProject

DeleteSaveNewTask ==
    /\ conn = None
    /\ SaveNewTask

DeleteConnect ==
    \E project_id \in GeneratedProjectIds : delete_project_connect(project_id)

NextDelete ==
    \/ DeleteSaveNewProject
    \/ DeleteSaveNewTask
    \/ DeleteConnect
    \/ delete_project_first
    \/ delete_project_second
    \/ delete_project_commit
    \/ delete_project_interrupted

SpecDelete == Init /\ [][NextDelete]_vars

----------------------------------------------------------------------------
\* Rows that no longer decrypt: projects and tasks are saved, the data of a
\* stored row is damaged on disk, and the tables are listed.

\* What the caller of a list operation gets: the list, or nothing when an
\* exception leaves the comprehension.
Called(rows, decoded) ==
    [ raised |-> ~Decrypts(rows),
      returned |-> IF Decrypts(rows) THEN decoded ELSE <<>> ]

RowsSaveNewProject ==
    /\ nproj < MaxProjects
    /\ \E iv \in StoreIVs :
          save_project(Project(<<"t">>, ProjectUuids[nproj + 1], now), iv)
    /\ nproj' = nproj + 1
    /\ UNCHANGED ntask

RowsSaveNewTask ==
    /\ ntask < MaxTasks
    /\ \E i \in DOMAIN projects, iv \in StoreIVs :
          save_task(Task(<<"a">>, projects[i].id, 1, 0, TaskUuids[ntask + 1], now), iv)
    /\ ntask' = ntask + 1
    /\ UNCHANGED nproj

\* The blob is as _encrypt wrote it.
AsWritten(blob) ==
    blob = Fernet_encrypt(key, blob.iv, blob.ct.pt)

\* The data column of one project row, until then as written, changes in
\* one place.
DamageProjectRow ==
    /\ \E i \in DOMAIN projects : \E blob \in Tampered(projects[i].data) :
          /\ AsWritten(projects[i].data)
          /\ projects' = [projects EXCEPT ![i].data = blob]
    /\ ret' = [op |-> "damage", arg |-> None, val |-> None]
    /\ UNCHANGED <<tasks, key, conn, data_dir, argv, app, now, nproj, ntask, allocated>>

\* The data column of one task row, until then as written, changes in one
\* place.
DamageTaskRow ==
    /\ \E i \in DOMAIN tasks : \E blob \in Tampered(tasks[i].data) :
          /\ AsWritten(tasks[i].data)
          /\ tasks' = [tasks EXCEPT ![i].data = blob]
    /\ ret' = [op |-> "damage", arg |-> None, val |-> None]
    /\ UNCHANGED <<projects, key, conn, data_dir, argv, app, now, nproj, ntask, allocated>>

RowsListProjects ==
    /\ ret' = [op |-> "list_projects", arg |-> None,
               val |-> Called(projects, list_projects)]
    /\ UNCHANGED <<projects, tasks, key, conn, data_dir, argv, app, now, nproj, ntask, allocated>>

RowsListTasks ==
    /\ \E project_id \in GeneratedProjectIds \cup {None} :
          ret' = [op |-> "list_tasks", arg |-> project_id,
                  val |-> Called(TaskRows(project_id),
                                 list_tasks(project_id, FALSE))]
    /\ UNCHANGED <<projects, tasks, key, conn, data_dir, argv, app, now, nproj, ntask, allocated>>

NextRows ==
    \/ RowsSaveNewProject
    \/ RowsSaveNewTask
    \/ DamageProjectRow
    \/ DamageTaskRow
    \/ RowsListProjects
    \/ RowsListTasks

SpecRows == Init /\ [][NextRows]_vars

----------------------------------------------------------------------------
\* The command line searching by title: tasks are added by --add-task,
\* their status is cycled in the application or set to Cancelled in the
\* edit-task dialog, and --complete and --delete-task look them up, all
\* within one reading of the clock.

SearchQueries == {<<"a">>, <<"B">>, <<"u">>}
SearchClock == {now}

SearchAddTask ==
    /\ ntask < MaxTasks
    /\ \E title \in Titles, iv \in StoreIVs :
          cmd_add_task(<<"t">>, title, 1, iv)

SearchCycleTask ==
    \E task \in SelectedTasks, clock \in SearchClock, iv \in StoreIVs :
        action_cycle_task(task, clock, iv)

\* The edit-task dialog submitted with the status Cancelled chosen and
\* nothing else changed.
SearchCancelTask ==
    \E task \in SelectedTasks, iv \in StoreIVs :
        action_edit_task(task, task.title, <<>>, Str("cancelled"), iv)

SearchComplete ==
    \E query \in SearchQueries, clock \in SearchClock, iv \in StoreIVs :
        cmd_complete_task(query, clock, iv)

SearchDelete ==
    \E query \in SearchQueries : cmd_delete_task(query)

NextSearch ==
    \/ SearchAddTask
    \/ SearchCycleTask
    \/ SearchCancelTask
    \/ SearchComplete
    \/ SearchDelete

SpecSearch == Init /\ [][NextSearch]_vars

----------------------------------------------------------------------------
\* The program started from a shell: a command line is parsed and main
\* runs it.

\* The values a string flag can have after parsing.
ArgTexts == {None, Str(<<>>), Str(<<"a">>)}

CommandLines ==
    [ project : {None, Str(<<"t">>)},
      add_task : ArgTexts,
      story_points : {1},
      list : BOOLEAN,
      projects : BOOLEAN,
      complete : ArgTexts,
      delete_task : ArgTexts ]

MainParse ==
    \E args \in CommandLines : parse_args(args)

MainRun ==
    /\ ret.op = "parse_args"
    /\ TruthyArg(argv.add_task) /\ TruthyArg(argv.project) => ntask < MaxTasks
    /\ \E iv \in StoreIVs : main(now, iv)

NextMain ==
    \/ MainParse
    \/ MainRun

SpecMain == Init /\ [][NextMain]_vars

----------------------------------------------------------------------------
\* save_project statement by statement, with the handle _connect() opens.
\* "with conn:" commits or rolls back when the block ends and does not
\* close the handle; nothing in Storage calls close().  The handle is closed
\* when the Connection object is finalized: at once when the last reference
\* goes with the frame, later when a traceback, a cycle or a collector
\* without reference counts keeps the object.

\* self._encrypt(project.to_dict()) and self._connect()
save_project_connect(project, iv) ==
    /\ conn = None
    /\ conn' = [ call |-> "save_project", arg |-> project, pc |-> "connected",
                 projects |-> projects_saved(project, iv), tasks |-> tasks ]
    /\ UNCHANGED <<projects, tasks, key, data_dir, argv, app, now, ntask, ret, allocated>>

\* conn.execute(INSERT OR REPLACE ...) and the end of the "with" block: the
\* transaction is committed.
save_project_commit ==
    /\ conn # None
    /\ conn.pc = "connected"
    /\ projects' = conn.projects
    /\ conn' = [conn EXCEPT !.pc = "committed"]
    /\ UNCHANGED <<tasks, key, data_dir, argv, app, now, nproj, ntask, ret, allocated>>

\* conn.execute raises (the database is locked, the disk is full): the
\* "with" block rolls back and the exception goes on.
save_project_raise ==
    /\ conn # None
    /\ conn.pc = "connected"
    /\ conn' = [conn EXCEPT !.pc = "rolled_back"]
    /\ UNCHANGED <<projects, tasks, key, data_dir, argv, app, now, nproj, ntask, ret, allocated>>

\* The call returns or raises to its caller; the handle is finalized now
\* or stays open.
save_project_exit ==
    /\ conn # None
    /\ conn.pc \in {"committed", "rolled_back"}
    /\ ret' = [op |-> "save_project", arg |-> conn.arg.id,
               val |-> IF conn.pc = "committed" THEN conn.arg
                       ELSE [error |-> "OperationalError"]]
    /\ \/ conn' = None
       \/ conn' = [conn EXCEPT !.pc = "exited"]
    /\ UNCHANGED <<projects, tasks, key, data_dir, argv, app, now, nproj, ntask, allocated>>

\* The Connection object of a call that has ended is finalized.
finalize ==
    /\ conn # None
    /\ conn.pc = "exited"
    /\ conn' = None
    /\ UNCHANGED <<projects, tasks, key, data_dir, argv, app, now, nproj, ntask, ret, allocated>>

ConnSaveNew ==
    /\ nproj < MaxProjects
    /\ \E name \in Names, iv \in IVs :
          save_project_connect(Project(name, ProjectUuids[nproj + 1], now), iv)
    /\ nproj' = nproj + 1

ConnSaveStored ==
    /\ \E i \in DOMAIN projects, name \in Names, iv \in IVs :
          save_project_connect([list_projects[i] EXCEPT !.name = name], iv)
    /\ UNCHANGED nproj

NextConn ==
    \/ ConnSaveNew
    \/ ConnSaveStored
    \/ save_project_commit
    \/ save_project_raise
    \/ save_project_exit
    \/ finalize

SpecConn == Init /\ [][NextConn]_vars

----------------------------------------------------------------------------
\* The priority of a task, for the story points a task can be given.

\* story_points is an int: the command line and Task(...) take any value.
StoryPointsRange == (0 - 60)..60

PriorityOfTask ==
    /\ \E story_points \in StoryPointsRange :
          ret' = [op |-> "priority", arg |-> story_points,
                  val |-> priority(Task(<<"a">>, Str("p1"), story_points, 0,
                                        Str("t1"), now))]
    /\ UNCHANGED <<projects, tasks, key, conn, data_dir, argv, app, now, nproj, ntask, allocated>>

NextPriority ==
    PriorityOfTask

SpecPriority == Init /\ [][NextPriority]_vars

----------------------------------------------------------------------------
\* Entities of every shape written and read back: tasks are saved with a
\* status, a completion time, tags and a description, saved again after a
\* toggle_status, and deleted, alone or with their project.

\* Task(...) with the fields a caller sets after construction.
ReadShapes ==
    { [status |-> "TODO", completed_at |-> None, tags |-> <<>>,
       description |-> <<>>],
      [status |-> "DONE", completed_at |-> Time(1),
       tags |-> << <<"x">>, <<>> >>, description |-> <<"d">>] }

\* The one project of this specification, saved again after its deletion
\* under a new id.
ReadSaveNewProject ==
    /\ projects = <<>>
    /\ nproj < MaxProjects
    /\ \E iv \in StoreIVs :
          save_project(Project(<<"t">>, ProjectUuids[nproj + 1], now), iv)
    /\ nproj' = nproj + 1
    /\ UNCHANGED ntask

ReadSaveNewTask ==
    /\ ntask < MaxTasks
    /\ \E shape \in ReadShapes, project_id \in GeneratedProjectIds,
          iv \in StoreIVs :
          save_task([Task(<<"a">>, project_id, 5, ntask, TaskUuids[ntask + 1], now)
                        EXCEPT !.status = shape.status,
                               !.completed_at = shape.completed_at,
                               !.tags = shape.tags,
                               !.description = shape.description], iv)
    /\ ntask' = ntask + 1
    /\ UNCHANGED nproj

\* A stored task is read, toggled and saved.
ReadSaveStoredTask ==
    /\ \E i \in DOMAIN tasks, iv \in StoreIVs :
          save_task(toggle_status(get_task(tasks[i].id), now), iv)
    /\ UNCHANGED <<nproj, ntask>>

ReadDeleteTask ==
    \E i \in DOMAIN tasks : delete_task(tasks[i].id)

ReadDeleteProject ==
    \E i \in DOMAIN projects : delete_project(projects[i].id)

NextRead ==
    \/ ReadSaveNewProject
    \/ ReadSaveNewTask
    \/ ReadSaveStoredTask
    \/ ReadDeleteTask
    \/ ReadDeleteProject

SpecRead == Init /\ [][NextRead]_vars

----------------------------------------------------------------------------
\* The application from its start on: keys and dialog answers in any order.
\* The task a handler works on is the one at current_task_idx, the project
\* the one at current_project_idx.

MaxTuiProjects == 2
MaxTuiTasks == 2

SelectedProject == app._projects[app.current_project_idx + 1]
SelectedTask == app._tasks[app.current_task_idx + 1]

TuiStart ==
    /\ ~app.running
    /\ run_tui

TuiAddProject ==
    /\ app.running
    /\ nproj < MaxTuiProjects
    /\ \E iv \in StoreIVs : action_add_project(<<"u">>, iv)

TuiAddTask ==
    /\ app.running
    /\ app._projects # <<>>
    /\ ntask < MaxTuiTasks
    /\ \E iv \in StoreIVs : action_add_task(SelectedProject, <<"a">>, <<>>, iv)

\* The edit-task dialog submitted as it opened.
TuiEditTask ==
    /\ app.running
    /\ app._tasks # <<>>
    /\ \E iv \in StoreIVs :
          action_edit_task(SelectedTask, <<"a">>, <<>>, SelectBLANK, iv)

TuiToggleTask ==
    /\ app.running
    /\ app._tasks # <<>>
    /\ \E iv \in StoreIVs : action_toggle_task(SelectedTask, now, iv)

TuiCycleTask ==
    /\ app.running
    /\ app._tasks # <<>>
    /\ \E iv \in StoreIVs : action_cycle_task(SelectedTask, now, iv)

TuiDeleteTask ==
    /\ app.running
    /\ app._tasks # <<>>
    /\ \E confirmed \in BOOLEAN : action_delete_task(SelectedTask, confirmed)

TuiDeleteProject ==
    /\ app.running
    /\ app._projects # <<>>
    /\ \E confirmed \in BOOLEAN : action_delete_project(SelectedProject, confirmed)

\* An item of the sidebar is selected.
TuiSelectProject ==
    /\ app.running
    /\ \E idx \in 0..(Len(app._projects) - 1) : on_project_selected(idx)

TuiCursorDown ==
    /\ app.running
    /\ action_cursor_down

TuiCursorUp ==
    /\ app.running
    /\ action_cursor_up

TuiSwitchFocus ==
    /\ app.running
    /\ action_switch_focus

NextTui ==
    \/ TuiStart
    \/ TuiAddProject
    \/ TuiAddTask
    \/ TuiEditTask
    \/ TuiToggleTask
    \/ TuiCycleTask
    \/ TuiDeleteTask
    \/ TuiDeleteProject
    \/ TuiSelectProject
    \/ TuiCursorDown
    \/ TuiCursorUp
    \/ TuiSwitchFocus

SpecTui == Init /\ [][NextTui]_vars

----------------------------------------------------------------------------
\* One process at a time on one data directory: the command line adds tasks
\* to the project t while no application runs, and a running application
\* adds, edits, toggles, cycles and deletes tasks until it quits.

MaxAddedTasks == 3

PosCmdAddTask ==
    /\ ~app.running
    /\ ntask < MaxAddedTasks
    /\ \E iv \in StoreIVs : cmd_add_task(<<"t">>, <<"a">>, 1, iv)

PosStart ==
    /\ ~app.running
    /\ projects # <<>>
    /\ run_tui

PosQuit ==
    /\ app.running
    /\ action_quit

PosAddTask ==
    /\ app.running
    /\ ntask < MaxAddedTasks
    /\ \E iv \in StoreIVs : action_add_task(SelectedProject, <<"a">>, <<>>, iv)

\* The edit-task dialog submitted as it opened.
PosEditTask ==
    /\ app.running
    /\ app._tasks # <<>>
    /\ \E iv \in StoreIVs :
          action_edit_task(SelectedTask, <<"a">>, <<>>, SelectBLANK, iv)

PosToggleTask ==
    /\ app.running
    /\ app._tasks # <<>>
    /\ \E iv \in StoreIVs : action_toggle_task(SelectedTask, now, iv)

PosCycleTask ==
    /\ app.running
    /\ app._tasks # <<>>
    /\ \E iv \in StoreIVs : action_cycle_task(SelectedTask, now, iv)

PosDeleteTask ==
    /\ app.running
    /\ app._tasks # <<>>
    /\ \E confirmed \in BOOLEAN : action_delete_task(SelectedTask, confirmed)

\* A row of the task list is selected.
PosSelectTask ==
    /\ app.running
    /\ \E i \in DOMAIN app._tasks : on_task_row_selected(app._tasks[i])

NextPositions ==
    \/ PosCmdAddTask
    \/ PosStart
    \/ PosQuit
    \/ PosAddTask
    \/ PosEditTask
    \/ PosToggleTask
    \/ PosCycleTask
    \/ PosDeleteTask
    \/ PosSelectTask

SpecPositions == Init /\ [][NextPositions]_vars

----------------------------------------------------------------------------
\* Tasks added to the project t by the command line with the story points
\* it is given, then completed and cancelled in the application: the
\* edit-task dialog is the one handler that stores the status CANCELLED.

MaxCancelTasks == 2

\* Values of --story-points.
CancelPoints == {0 - 2, 1, 3}

\* tudu --project t --add-task a --story-points N
CancelCmdAddTask ==
    /\ ~app.running
    /\ ntask < MaxCancelTasks
    /\ \E story_points \in CancelPoints, iv \in StoreIVs :
          cmd_add_task(<<"t">>, <<"a">>, story_points, iv)

CancelStart ==
    /\ ~app.running
    /\ projects # <<>>
    /\ run_tui

CancelSelectTask ==
    /\ app.running
    /\ \E i \in DOMAIN app._tasks : on_task_row_selected(app._tasks[i])

CancelToggleTask ==
    /\ app.running
    /\ app._tasks # <<>>
    /\ \E iv \in StoreIVs : action_toggle_task(SelectedTask, now, iv)

\* The edit-task dialog submitted with the status Cancelled chosen.
CancelEditTask ==
    /\ app.running
    /\ app._tasks # <<>>
    /\ \E iv \in StoreIVs :
          action_edit_task(SelectedTask, <<"a">>, <<>>, Str("cancelled"), iv)

NextCancel ==
    \/ CancelCmdAddTask
    \/ CancelStart
    \/ CancelSelectTask
    \/ CancelToggleTask
    \/ CancelEditTask

SpecCancel == Init /\ [][NextCancel]_vars

----------------------------------------------------------------------------
\* Properties of the store interface, checked under Spec.

\* What the rows hold, read without the query code: the record inside row
\* i of a table, member by member.
Member(blob, k) ==
    blob.ct.pt[CHOOSE i \in DOMAIN blob.ct.pt : blob.ct.pt[i][1] = k][2]

ProjectRowIds == {projects[i].id : i \in DOMAIN projects}
TaskRowIds == {tasks[i].id : i \in DOMAIN tasks}

\* The number of rows of a table with the given id.
RowsWithId(rows, id) ==
    Cardinality({i \in DOMAIN rows : rows[i].id = id})

UniqueIds ==
    /\ \A i, j \in DOMAIN projects : projects[i].id = projects[j].id => i = j
    /\ \A i, j \in DOMAIN tasks : tasks[i].id = tasks[j].id => i = j

\* The row of the id just saved reads back as the entity just saved.
SavedReadsBack ==
    /\ ret.op = "save_task" =>
          /\ get_task(ret.arg) = ret.val
          /\ \E i \in DOMAIN tasks :
                /\ tasks[i].id = ret.arg
                /\ Member(tasks[i].data, "title") = ret.val.title
    /\ ret.op = "save_project" =>
          /\ get_project(ret.arg) = ret.val
          /\ \E i \in DOMAIN projects :
                /\ projects[i].id = ret.arg
                /\ Member(projects[i].data, "name") = ret.val.name

\* C1: every step leaves at most one row per id in each table; a
\* save_task or save_project of an id that is already stored leaves the
\* number of rows as it was, and the row of that id then reads back as the
\* entity just saved.
C1_UpsertById ==
    /\ [](UniqueIds /\ SavedReadsBack)
    /\ [][ /\ (ret'.op = "save_task" /\ ret'.arg \in TaskRowIds)
                  => Len(tasks') = Len(tasks)
           /\ (ret'.op = "save_project" /\ ret'.arg \in ProjectRowIds)
                  => Len(projects') = Len(projects)
         ]_vars

\* A task was saved again after a later task had been added, with a title
\* other than the one every task is created with in this state.
C1_Witness ==
    /\ ret.op = "save_task"
    /\ Len(tasks) = 2
    /\ tasks[1].id = TaskUuids[2]
    /\ tasks[2].id = TaskUuids[1]
    /\ Member(tasks[1].data, "title") # Member(tasks[2].data, "title")

\* Nothing of the project just deleted is left.
ProjectGone ==
    ret.op = "delete_project" =>
        /\ ret.arg \notin ProjectRowIds
        /\ \A i \in DOMAIN tasks : tasks[i].project_id # ret.arg
        /\ list_tasks(ret.arg, TRUE) = <<>>
        /\ list_tasks(ret.arg, FALSE) = <<>>

\* C2: delete_project(id) leaves no project row with that id and no task
\* row with that project_id, so list_tasks(project_id=id) is empty; the
\* task rows of other projects and the other project rows stay as they were.
C2_CascadeDelete ==
    /\ []ProjectGone
    /\ [][ ret'.op = "delete_project" =>
               LET id == ret'.arg
               IN  /\ \A i \in DOMAIN tasks :
                         tasks[i].project_id # id =>
                             \E j \in DOMAIN tasks' : (tasks')[j] = tasks[i]
                   /\ \A j \in DOMAIN tasks' :
                         \E i \in DOMAIN tasks : (tasks')[j] = tasks[i]
                   /\ \A i \in DOMAIN projects :
                         projects[i].id # id =>
                             \E j \in DOMAIN projects' : (projects')[j] = projects[i]
                   /\ Len(projects') >= Len(projects) - 1
          ]_vars

\* delete_project has removed the first project; the second project and a
\* task of it are still stored.
C2_Witness ==
    /\ ret.op = "delete_project"
    /\ ret.arg = ProjectUuids[1]
    /\ ProjectRowIds = {ProjectUuids[2]}
    /\ \E i \in DOMAIN tasks : tasks[i].project_id = ProjectUuids[2]

\* C4: every stored task's project_id is the id of exactly one stored
\* project.
C4_NoOrphanTasks ==
    \A i \in DOMAIN tasks : RowsWithId(projects, tasks[i].project_id) = 1

\* The values a caller passes list_tasks as project_id: the id of a
\* project, or the empty string.
ListTaskArgs == GeneratedProjectIds \cup {Str("")}

\* C6: list_tasks(project_id=v) is the stored tasks whose project_id is v,
\* for every value v; list_tasks() is every stored task.
C6_ListTasksFilters ==
    /\ \A v \in ListTaskArgs :
          list_tasks(v, FALSE) =
              DecodeTaskRows(SelectSeq(tasks, LAMBDA r : r.project_id = v))
    /\ list_tasks(None, FALSE) = DecodeTaskRows(tasks)

\* Two names are equal ignoring letter case: of one length, and at each
\* place the same character or the two cases of one letter.
CasePairs == {<<"t", "T">>, <<"u", "U">>, <<"a", "A">>, <<"b", "B">>}

EqualIgnoringCase(a, b) ==
    /\ Len(a) = Len(b)
    /\ \A i \in DOMAIN a :
          \/ a[i] = b[i]
          \/ <<a[i], b[i]>> \in CasePairs
          \/ <<b[i], a[i]>> \in CasePairs

\* The stored projects, each read from its own row.
StoredProjects == {get_project(id) : id \in ProjectRowIds}

NamedIgnoringCase(name) ==
    {p \in StoredProjects : EqualIgnoringCase(p.name, name)}

\* The project get_or_create_project returned is stored, under the id
\* returned, with a name equal to the argument ignoring case.
GetOrCreateReturnsStored ==
    ret.op = "get_or_create_project" =>
        /\ ret.val.id \in ProjectRowIds
        /\ get_project(ret.val.id) = ret.val
        /\ EqualIgnoringCase(ret.val.name, ret.arg)

LookupNames == Names \cup {<<"T", "U">>, <<"u">>, <<"t", "u", "t">>}

\* C10: get_project_by_name(name) is a stored project whose name equals
\* the argument ignoring case when there is one, and None when there is
\* none; a name that contains the argument or is contained in it is no match.
C10_LookupIgnoresCase ==
    \A name \in LookupNames :
        IF NamedIgnoringCase(name) = {}
        THEN get_project_by_name(name) = None
        ELSE get_project_by_name(name) \in NamedIgnoringCase(name)

\* A project named "tu" is stored and none named "t": the lookup of "TU"
\* finds a project and the lookups of "t", "u" and "tut" find none.
C10_Witness ==
    /\ \E p \in StoredProjects : p.name = <<"t", "u">>
    /\ \A p \in StoredProjects : p.name # <<"t">>
    /\ get_project_by_name(<<"T", "U">>) # None
    /\ get_project_by_name(<<"t">>) = None
    /\ get_project_by_name(<<"u">>) = None
    /\ get_project_by_name(<<"t", "u", "t">>) = None

----------------------------------------------------------------------------
\* Properties of position allocation, checked under SpecCli.

\* The positions stored in the tasks table for a project.
StoredPositions(project_id) ==
    {Member(tasks[i].data, "position") :
        i \in {j \in DOMAIN tasks : tasks[j].project_id = project_id}}

\* The row cmd_add_task has just stored.
AddedRow == tasks[Len(tasks)]

\* The position asked for next is none that was given to an earlier task of
\* the project, stored or deleted.
C3_PositionNeverReused ==
    \A project_id \in ProjectRowIds :
        <<project_id, get_next_position(project_id)>> \notin allocated

\* A position given earlier that is still held, or that lies below one
\* still held, is not the next position.
NextAboveHeld ==
    \A a \in allocated :
        (\E q \in StoredPositions(a[1]) : q >= a[2])
            => get_next_position(a[1]) # a[2]

\* C3: over task additions (each taking get_next_position of its project)
\* and deletions, the position a new task gets is greater than every
\* position stored for its project at that moment, so a position given
\* earlier is given again only once no task of the project holds it or a
\* higher one.
C3_PositionAboveStored ==
    /\ []NextAboveHeld
    /\ [][ntask' = ntask + 1 =>
            \A q \in StoredPositions(AddedRow'.project_id) :
                q < Member(AddedRow'.data, "position")]_vars

\* Positions 0, 1 and 2 were given in a project, the task at 1 is deleted
\* and the next position is 3.
C3_Witness ==
    \E project_id \in ProjectRowIds :
        /\ {<<project_id, 0>>, <<project_id, 1>>, <<project_id, 2>>}
               \subseteq allocated
        /\ StoredPositions(project_id) = {0, 2}
        /\ get_next_position(project_id) = 3

\* C7: get_next_position(project_id) is 0 when no stored task has that
\* project_id and otherwise one more than the greatest position stored for
\* it.
C7_NextPositionIsMaxPlusOne ==
    \A project_id \in GeneratedProjectIds :
        LET held == StoredPositions(project_id)
        IN  IF held = {}
            THEN get_next_position(project_id) = 0
            ELSE /\ get_next_position(project_id) - 1 \in held
                 /\ \A q \in held : q < get_next_position(project_id)

\* One project holds position 1 alone after the task at 0 was deleted and
\* another project holds no task: the next positions are 2 and 0.
C7_Witness ==
    \E p, q \in ProjectRowIds :
        /\ StoredPositions(p) = {1}
        /\ get_next_position(p) = 2
        /\ StoredPositions(q) = {}
        /\ get_next_position(q) = 0

----------------------------------------------------------------------------
\* Properties of the sorted listing, checked under SpecSort.

\* The sort key of a is less than or equal to that of b.
KeyLeq(a, b) ==
    LET ca == a.status \in {"DONE", "CANCELLED"}
        cb == b.status \in {"DONE", "CANCELLED"}
    IN  \/ ~ca /\ cb
        \/ ca = cb /\ a.story_points > b.story_points
        \/ ca = cb /\ a.story_points = b.story_points
                   /\ a.position < b.position
        \/ ca = cb /\ a.story_points = b.story_points
                   /\ a.position = b.position
                   /\ a.created_at.iso <= b.created_at.iso

\* C5: list_tasks(project_id, sort_by_points = True) holds the tasks of
\* list_tasks(project_id, False), each adjacent pair in the order of the
\* key (is_complete, -story_points, position, created_at), and no DONE or
\* CANCELLED task before an incomplete one.
C5_SortedByCompositeKey ==
    \A project_id \in GeneratedProjectIds \cup {None} :
        LET sorted == list_tasks(project_id, TRUE)
            listed == list_tasks(project_id, FALSE)
        IN  /\ Len(sorted) = Len(listed)
            /\ {sorted[i] : i \in DOMAIN sorted} = {listed[i] : i \in DOMAIN listed}
            /\ \A i \in 1..(Len(sorted) - 1) : KeyLeq(sorted[i], sorted[i + 1])
            /\ \A i, j \in DOMAIN sorted :
                   i < j => ~(sorted[i].status \in {"DONE", "CANCELLED"}
                              /\ sorted[j].status \notin {"DONE", "CANCELLED"})

\* Three tasks stored as a DONE task of 5 points, a TODO task of 1 point and
\* a TODO task of 5 points are listed as the 5-point TODO, the 1-point TODO
\* and the DONE task.
C5_Witness ==
    /\ Len(tasks) = 3
    /\ LET sorted == list_tasks(None, TRUE)
           listed == list_tasks(None, FALSE)
       IN  /\ listed[1].status = "DONE" /\ listed[1].story_points = 5
           /\ listed[2].status = "TODO" /\ listed[2].story_points = 1
           /\ listed[3].status = "TODO" /\ listed[3].story_points = 5
           /\ sorted = <<listed[3], listed[2], listed[1]>>

----------------------------------------------------------------------------
\* Properties of the statistics, checked under SpecStats.

\* The rows of the tasks table of a project.
RowsOf(project_id) ==
    {i \in DOMAIN tasks : tasks[i].project_id = project_id}

\* The story points of a set of rows of the tasks table.
RECURSIVE PointsOf(_)
PointsOf(rows) ==
    IF rows = {} THEN 0
    ELSE LET i == CHOOSE j \in rows : TRUE
         IN  Member(tasks[i].data, "story_points") + PointsOf(rows \ {i})

\* The rows of a project whose stored status is the given value.
RowsWithStatus(project_id, value) ==
    {i \in RowsOf(project_id) : Member(tasks[i].data, "status") = value}

\* C8: get_project_stats(project_id) counts the project's tasks, those DONE
\* and those IN_PROGRESS, gives todo_tasks as total - done - in_progress,
\* sums the story points of all and of the DONE tasks, and gives
\* completion_pct as done_points / total_points * 100, or 0 when
\* total_points is 0.
C8_ProjectStats ==
    \A project_id \in GeneratedProjectIds :
        LET stats == get_project_stats(project_id)
            done == RowsWithStatus(project_id, "done")
            doing == RowsWithStatus(project_id, "in_progress")
        IN  /\ stats.total_tasks = Cardinality(RowsOf(project_id))
            /\ stats.done_tasks = Cardinality(done)
            /\ stats.in_progress_tasks = Cardinality(doing)
            /\ stats.todo_tasks =
                   stats.total_tasks - stats.done_tasks - stats.in_progress_tasks
            /\ stats.total_points = PointsOf(RowsOf(project_id))
            /\ stats.done_points = PointsOf(done)
            /\ IF stats.total_points = 0
               THEN stats.completion_pct = <<0, 1>>
               ELSE stats.completion_pct[1] * stats.total_points
                        = stats.done_points * 100 * stats.completion_pct[2]

\* A project with a DONE task of 3 points and a TODO task of 5 points has
\* total_points 8, done_points 3 and completion_pct 37.5, and a project
\* without tasks has completion_pct 0.
C8_Witness ==
    \E p, q \in ProjectRowIds :
        /\ Cardinality(RowsOf(p)) = 2
        /\ \E i \in RowsWithStatus(p, "done") :
               Member(tasks[i].data, "story_points") = 3
        /\ \E i \in RowsWithStatus(p, "todo") :
               Member(tasks[i].data, "story_points") = 5
        /\ get_project_stats(p).total_points = 8
        /\ get_project_stats(p).done_points = 3
        /\ get_project_stats(p).completion_pct[1] * 10
               = 375 * get_project_stats(p).completion_pct[2]
        /\ RowsOf(q) = {}
        /\ get_project_stats(q).completion_pct = <<0, 1>>

----------------------------------------------------------------------------
\* Properties of the stored tasks under the application, checked under
\* SpecApp.

\* C11: every stored task has story_points >= 1, whether the command line,
\* the add-task dialog or the edit-task dialog stored it.
C11_StoryPointsAtLeastOne ==
    \A i \in DOMAIN tasks : Member(tasks[i].data, "story_points") >= 1

\* C12: after any toggle, cycle and edit-task operations, a stored task has
\* a completed_at that is not null if and only if its status is DONE.
C12_CompletedAtIffDone ==
    \A i \in DOMAIN tasks :
        Member(tasks[i].data, "completed_at") # None
            <=> Member(tasks[i].data, "status") = "done"

\* C13: an operation that stores a task with a field changed leaves it with
\* an updated_at later than the one it had before.
C13_UpdatedAtAdvances ==
    [][\A i \in DOMAIN tasks, j \in DOMAIN tasks' :
          (tasks[i].id = tasks'[j].id
              /\ tasks[i].data.ct.pt # tasks'[j].data.ct.pt)
              => Member(tasks'[j].data, "updated_at").iso
                     > Member(tasks[i].data, "updated_at").iso]_vars

----------------------------------------------------------------------------
\* Properties of the key files, checked under SpecKeys and SpecKeyFiles.

\* C14: a construction that finds both key files leaves them as they are
\* and derives the key of the handle before it, and the stored projects
\* decrypt through every handle.
C14_KeyFilesKept ==
    /\ [](key # None => Decrypts(projects))
    /\ [][(ret'.op = "Storage" /\ data_dir.key_file # Absent
              /\ data_dir.salt_file # Absent)
            => (data_dir' = data_dir /\ (key # None => key' = key))]_vars

\* A handle constructed on a directory that has both files and a stored
\* project: it wrote neither file and the project decrypts.
C14_Witness ==
    /\ ret.op = "Storage"
    /\ ret.val = [wrote_key |-> FALSE, wrote_salt |-> FALSE]
    /\ Len(projects) >= 1
    /\ Decrypts(projects)

\* The failure the specification names for damaged key material.
KeyCorruptError == [error |-> "KeyCorruptError"]

\* A file that exists and does not hold a value its generator returns.
Damaged(file, wellformed) ==
    file # Absent /\ file.bytes \notin wellformed

\* C15: a construction that finds a corrupt or truncated master-key or salt
\* file fails with KeyCorruptError, writes nothing and derives no key.
C15_CorruptKeyRefused ==
    [][(ret'.op = "Storage"
          /\ (Damaged(data_dir.key_file, MasterKeys)
                \/ Damaged(data_dir.salt_file, Salts)))
        => (ret'.val = KeyCorruptError /\ key' = key /\ data_dir' = data_dir)]_vars

\* C16: a construction that finds the master-key file or the salt file
\* absent generates and writes both.
C16_BothGenerated ==
    [][(ret'.op = "Storage"
          /\ (data_dir.key_file = Absent \/ data_dir.salt_file = Absent))
        => ret'.val = [wrote_key |-> TRUE, wrote_salt |-> TRUE]]_vars

----------------------------------------------------------------------------
\* Properties of the codec, checked under SpecCodec.

\* The blob is the one _encrypt produced and the handle is the one that
\* produced it.
Untouched ==
    /\ ret.arg.blob = ret.arg.produced
    /\ key = ret.arg.produced.ct.enc_key

C18_AnyByteDetected ==
    (ret.op = "_decrypt" /\ ~Untouched) => ret.val = DecryptError

\* The blob decodes to other token bytes than the blob encrypt produced, or
\* does not decode.
BytesDiffer ==
    \/ ret.arg.blob.iv # ret.arg.produced.iv
    \/ ret.arg.blob.ct # ret.arg.produced.ct
    \/ ret.arg.blob.hmac # ret.arg.produced.hmac
    \/ ret.arg.blob.b64 = "invalid"

\* C18: decrypt of a blob whose token bytes differ from those encrypt
\* produced, or of a blob produced under a different key, fails; decrypt
\* returns a record only for a blob that decodes to the bytes encrypt
\* produced, and the record is then the one that was encrypted.
C18_TamperDetected ==
    ret.op = "_decrypt" =>
        /\ (BytesDiffer \/ key # ret.arg.produced.ct.enc_key)
               => ret.val = DecryptError
        /\ ret.val # DecryptError => ret.val = ret.arg.record.data

\* A blob whose IV was changed was decrypted under the key that produced
\* it, and the decryption failed.
C18_Witness ==
    /\ ret.op = "_decrypt"
    /\ ret.arg.blob.iv # ret.arg.produced.iv
    /\ key = ret.arg.produced.ct.enc_key
    /\ ret.val = DecryptError

----------------------------------------------------------------------------
\* Properties of delete_project, checked under Spec and SpecDelete.

\* C19: delete_project(id) with no project of that id stored leaves the
\* projects table and the tasks table as they were.
C19_DeleteAbsentProjectNoOp ==
    [][(ret'.op = "delete_project" /\ ret'.arg \notin ProjectRowIds)
        => (projects' = projects /\ tasks' = tasks)]_vars

\* The project row is gone while a task with that project_id is stored.
Orphaned(ps, ts, project_id) ==
    /\ \A i \in DOMAIN ps : ps[i].id # project_id
    /\ \E i \in DOMAIN ts : ts[i].project_id = project_id

\* C20: once delete_project has run a statement, its transaction holds no
\* task of the project without the project row; the database changes only
\* when the transaction commits, to tables without the project and without
\* its tasks, and an interruption leaves the database as it was.
C20_NoOrphanExposed ==
    /\ []((conn # None /\ conn.pc # "connected")
            => ~Orphaned(conn.projects, conn.tasks, conn.arg))
    /\ [][conn # None =>
            \/ UNCHANGED <<projects, tasks>>
            \/ /\ conn.pc = "project_deleted"
               /\ conn' = None
               /\ projects' = DeleteById(projects, conn.arg)
               /\ tasks' = DeleteByProject(tasks, conn.arg)]_vars

\* delete_project of a stored project with a stored task was interrupted
\* between its two statements: the project and the task are stored.
C20_Witness ==
    /\ ret.op = "interrupted"
    /\ ret.val = "tasks_deleted"
    /\ ret.arg \in ProjectRowIds
    /\ \E i \in DOMAIN tasks : tasks[i].project_id = ret.arg

----------------------------------------------------------------------------
\* Properties of the list operations over damaged rows, checked under
\* SpecRows.

\* C21: a list operation returns the entity of every row it selects that
\* decrypts, whether or not another row it selects fails to decrypt.
C21_CorruptRowScoped ==
    /\ ret.op = "list_projects" =>
          \A i \in DOMAIN projects :
              Authentic(key, projects[i].data) =>
                  \E j \in DOMAIN ret.val.returned :
                      ret.val.returned[j].id = projects[i].id
    /\ ret.op = "list_tasks" =>
          \A i \in DOMAIN TaskRows(ret.arg) :
              Authentic(key, TaskRows(ret.arg)[i].data) =>
                  \E j \in DOMAIN ret.val.returned :
                      ret.val.returned[j].id = TaskRows(ret.arg)[i].id

----------------------------------------------------------------------------
\* Properties of the title search of the command line, checked under
\* SpecSearch.

\* The title holds the query at some place, ignoring letter case.
TitleHolds(title, query) ==
    \E k \in 0..(Len(title) - Len(query)) :
        EqualIgnoringCase(SubSeq(title, k + 1, k + Len(query)), query)

\* The task rows whose stored title holds the query.
MatchingRows(query) ==
    {i \in DOMAIN tasks : TitleHolds(Member(tasks[i].data, "title"), query)}

\* C22: --complete and --delete-task exit with status 1 and leave both
\* tables as they were unless exactly one stored title holds the query
\* ignoring case; then they exit with status 0, every other task row and
\* every project row stays as it was, and the matching task is gone
\* (--delete-task) or stored with its status toggled (--complete).
C22_SearchByTitle ==
    [][ ret'.op \in {"cmd_complete_task", "cmd_delete_task"} =>
          LET found == MatchingRows(ret'.arg)
              exit == IF ret'.op = "cmd_delete_task" THEN ret'.val
                      ELSE ret'.val.exit
          IN  IF Cardinality(found) # 1
              THEN /\ exit = 1
                   /\ tasks' = tasks
                   /\ projects' = projects
              ELSE LET i == CHOOSE i \in found : TRUE
                   IN  /\ exit = 0
                       /\ projects' = projects
                       /\ \A j \in DOMAIN tasks \ {i} :
                             \E k \in DOMAIN tasks' : (tasks')[k] = tasks[j]
                       /\ IF ret'.op = "cmd_delete_task"
                          THEN /\ Len(tasks') = Len(tasks) - 1
                               /\ \A k \in DOMAIN tasks' :
                                     (tasks')[k].id # tasks[i].id
                          ELSE /\ Len(tasks') = Len(tasks)
                               /\ \E k \in DOMAIN tasks' :
                                     /\ (tasks')[k].id = tasks[i].id
                                     /\ Member((tasks')[k].data, "title")
                                           = Member(tasks[i].data, "title")
                                     /\ Member((tasks')[k].data, "status")
                                           = IF Member(tasks[i].data, "status") = "done"
                                             THEN "todo" ELSE "done"
      ]_vars

\* --complete matched one task of two and exited with status 0; the other
\* task's title does not hold the query.
C22_Witness ==
    /\ ret.op = "cmd_complete_task"
    /\ ret.val.exit = 0
    /\ Len(tasks) = 2
    /\ Cardinality(MatchingRows(ret.arg)) = 1

\* --complete has just run on one task, right after a --complete that ran
\* on the same task.
CompletedTwice ==
    /\ ret.op = "cmd_complete_task"
    /\ ret.val.exit = 0
    /\ ret'.op = "cmd_complete_task"
    /\ ret'.val.exit = 0
    /\ ret'.val.task.id = ret.val.task.id

\* The stored status of the task with the given id.
StoredStatus(id) ==
    Member(tasks[CHOOSE i \in DOMAIN tasks : tasks[i].id = id].data, "status")

\* C23 as stated: two --complete in a row on one task leave it with the
\* status it had before the first, whatever that status was.
C23_CompleteTwiceRestores ==
    [][ CompletedTwice =>
          /\ ret'.val.saved.status = ret.val.task.status
          /\ StoredStatus(ret.val.task.id)' = TaskStatusValue(ret.val.task.status)
      ]_vars

\* C23: two --complete in a row on one task leave it with the status it
\* had before the first when that status was TODO or DONE; a task that was
\* IN_PROGRESS or CANCELLED is DONE after the first and TODO after the
\* second.
C23_CompleteTwice ==
    [][ CompletedTwice =>
          LET before == ret.val.task.status
              after == IF before \in {"TODO", "DONE"} THEN before ELSE "TODO"
          IN  /\ before \notin {"TODO", "DONE"} => ret.val.saved.status = "DONE"
              /\ ret'.val.saved.status = after
              /\ StoredStatus(ret.val.task.id)' = TaskStatusValue(after)
      ]_vars

\* --complete has run on a task that an earlier completion had made DONE:
\* the task is stored as TODO.
C23_Witness ==
    /\ ret.op = "cmd_complete_task"
    /\ ret.val.exit = 0
    /\ ret.val.task.status = "DONE"
    /\ ret.val.task.completed_at # None
    /\ ret.val.saved.status = "TODO"
    /\ StoredStatus(ret.val.task.id) = "todo"

----------------------------------------------------------------------------
\* Properties of the entry point, checked under SpecMain.

CliOps ==
    {"cmd_add_task", "cmd_list_tasks", "cmd_list_projects",
     "cmd_complete_task", "cmd_delete_task", "run_cli"}

\* C24: once main has run, the terminal UI was launched exactly when none
\* of --add-task, --list, --projects, --complete, --delete-task was on the
\* command line, and otherwise the command line interface ran.
C24_UiIffNoCommandFlag ==
    (argv # None /\ ret.op # "parse_args") =>
        LET given == \/ argv.add_task # None
                     \/ argv.list
                     \/ argv.projects
                     \/ argv.complete # None
                     \/ argv.delete_task # None
        IN  /\ ret.op = "run_tui" <=> ~given
            /\ given => ret.op \in CliOps

----------------------------------------------------------------------------
\* Properties of the reads and of delete_task, checked under Spec.

\* The ids a caller can ask for: those uuid4() has returned or will return.
ProjectIdsAsked == {ProjectUuids[i] : i \in DOMAIN ProjectUuids}
TaskIdsAsked == {TaskUuids[i] : i \in DOMAIN TaskUuids}

\* The data of the row with the given id.
RowData(rows, id) ==
    rows[CHOOSE i \in DOMAIN rows : rows[i].id = id].data

\* C25: get_project(id) and get_task(id) return None when no row has the
\* id, and otherwise the entity held by the row with the id.
C25_GetByIdOrNone ==
    /\ \A id \in ProjectIdsAsked :
          LET got == get_project(id)
          IN  IF id \notin ProjectRowIds THEN got = None
              ELSE /\ got \notin {None, DecryptError}
                   /\ got.id = id
                   /\ got.name = Member(RowData(projects, id), "name")
    /\ \A id \in TaskIdsAsked :
          LET got == get_task(id)
          IN  IF id \notin TaskRowIds THEN got = None
              ELSE /\ got \notin {None, DecryptError}
                   /\ got.id = id
                   /\ got.title = Member(RowData(tasks, id), "title")
                   /\ got.project_id = Member(RowData(tasks, id), "project_id")

\* The first project was deleted: the second project and a task are
\* stored, the first project and the second task are not.
C25_Witness ==
    /\ ProjectRowIds = {ProjectUuids[2]}
    /\ TaskRowIds = {TaskUuids[1]}
    /\ get_project(ProjectUuids[1]) = None
    /\ get_project(ProjectUuids[2]).name = <<"t">>
    /\ get_task(TaskUuids[2]) = None
    /\ get_task(TaskUuids[1]).title = <<"A", "b">>

\* C26: delete_task(id) leaves the projects as they were; with no task row
\* of that id it leaves the tasks as they were, and otherwise it removes
\* one row, no row has the id afterwards, and every other task row is kept.
C26_DeleteTaskExactlyOne ==
    [][ ret'.op = "delete_task" =>
          /\ projects' = projects
          /\ IF ret'.arg \notin TaskRowIds
             THEN tasks' = tasks
             ELSE /\ Len(tasks') = Len(tasks) - 1
                  /\ \A k \in DOMAIN tasks' : (tasks')[k].id # ret'.arg
                  /\ \A j \in DOMAIN tasks :
                        tasks[j].id # ret'.arg =>
                            \E k \in DOMAIN tasks' : (tasks')[k] = tasks[j]
      ]_vars

\* delete_task has run for the first task, which is not stored; the second
\* task and a project are.
C26_Witness ==
    /\ ret.op = "delete_task"
    /\ ret.arg = TaskUuids[1]
    /\ TaskRowIds = {TaskUuids[2]}
    /\ projects # <<>>

----------------------------------------------------------------------------
\* Properties of the connection handle, checked under SpecConn.

\* C27: once a Storage operation has returned or raised, the connection it
\* opened is closed.
C27_ConnectionReleased ==
    conn # None => conn.pc # "exited"

----------------------------------------------------------------------------
\* Properties of the priority, checked under SpecPriority.

\* C28: the priority is Critical exactly for 13 points and more, High for
\* 8 to 12, Medium for 5 to 7, Low for 3 and 4, Trivial below 3.
C28_PriorityBands ==
    ret.op = "priority" =>
        /\ ret.val \in PriorityMembers
        /\ ret.val = "CRITICAL" <=> ret.arg >= 13
        /\ ret.val = "HIGH" <=> ret.arg \in 8..12
        /\ ret.val = "MEDIUM" <=> ret.arg \in 5..7
        /\ ret.val = "LOW" <=> ret.arg \in 3..4
        /\ ret.val = "TRIVIAL" <=> ret.arg < 3

\* The priority of a task of 12 story points is High.
C28_Witness ==
    /\ ret.op = "priority"
    /\ ret.arg = 12
    /\ ret.val = "HIGH"

\* The status held by the row with the given id.
StatusIn(rows, id) ==
    Member(RowData(rows, id), "status")

\* The statuses a cycle_status call goes from and to, as stored.
CycleSteps ==
    { <<"todo", "in_progress">>, <<"in_progress", "done">>,
      <<"done", "todo">>, <<"cancelled", "todo">> }

\* Three cycle_status calls on a stored task that is not CANCELLED give its
\* status back.
ThreeCyclesReturn ==
    \A i \in DOMAIN tasks :
        LET t == list_tasks(None, FALSE)[i]
        IN  t.status # "CANCELLED" =>
                cycle_status(cycle_status(cycle_status(t, now), now), now).status
                    = t.status

\* C29: every cycle of a task in the application takes its stored status
\* along TODO -> IN_PROGRESS -> DONE -> TODO or CANCELLED -> TODO, three
\* cycles of a task that is not CANCELLED give its status back, and a
\* toggle by --complete leaves the task DONE or TODO: no cycle and no toggle
\* leaves a task CANCELLED.
C29_CycleNeverCancels ==
    /\ []ThreeCyclesReturn
    /\ [][ ret'.op = "action_cycle_task" =>
              <<StatusIn(tasks, ret'.arg), StatusIn(tasks', ret'.arg)>> \in CycleSteps
         ]_vars
    /\ [][ (ret'.op = "cmd_complete_task" /\ ret'.val.exit = 0) =>
              /\ StatusIn(tasks', ret'.val.task.id) \in {"done", "todo"}
              /\ StatusIn(tasks', ret'.val.task.id)
                    # StatusIn(tasks, ret'.val.task.id)
         ]_vars

\* A task that was cancelled in the edit dialog and another task are
\* stored, and the last cycle left its task TODO.
C29_Witness ==
    /\ ret.op = "action_cycle_task"
    /\ StoredStatus(ret.arg) = "todo"
    /\ \E i \in DOMAIN tasks : Member(tasks[i].data, "status") = "cancelled"

\* C30: the id and project_id columns of every task row are the id and
\* project_id inside the row's record, and the id column of every project
\* row is the id inside its record.
C30_ColumnsMatchRecord ==
    /\ \A i \in DOMAIN tasks :
          /\ Authentic(key, tasks[i].data)
          /\ Member(tasks[i].data, "id") = tasks[i].id
          /\ Member(tasks[i].data, "project_id") = tasks[i].project_id
    /\ \A i \in DOMAIN projects :
          /\ Authentic(key, projects[i].data)
          /\ Member(projects[i].data, "id") = projects[i].id

\* The first task was saved again after the second was added, and is
\* stored under the second project while the second task is under the
\* first.
C30_Witness ==
    /\ ret.op = "save_task"
    /\ Len(tasks) = 2
    /\ tasks[2].id = TaskUuids[1]
    /\ tasks[2].project_id = ProjectUuids[2]
    /\ tasks[1].project_id = ProjectUuids[1]

----------------------------------------------------------------------------
\* Properties of reading back what was written, checked under SpecRead.

\* The step saves or deletes the task row of the given id, by save_task,
\* delete_task or the delete_project of its project.
WritesTask(id) ==
    \/ ret'.op \in {"save_task", "delete_task"} /\ ret'.arg = id
    \/ ret'.op = "delete_project"
          /\ \E i \in DOMAIN tasks :
                tasks[i].id = id /\ tasks[i].project_id = ret'.arg

\* The step saves or deletes the project row of the given id.
WritesProject(id) ==
    ret'.op \in {"save_project", "delete_project"} /\ ret'.arg = id

\* The rows of a table with the given id.
RowsWith(rows, id) == SelectSeq(rows, LAMBDA r : r.id = id)

\* The step leaves everything a get of the id reads: its rows, the key and
\* the clock that fills a missing created_at.
SameRows(before, after, id) ==
    /\ RowsWith(after, id) = RowsWith(before, id)
    /\ key' = key
    /\ now' = now

\* C31: right after save_task(t) or save_project(p) the get of that id
\* returns the entity saved, equal in every field, and every step that is
\* not a save or delete of an id leaves what the get of that id returns.
C31_ReadYourWrites ==
    /\ [](/\ ret.op = "save_task" => get_task(ret.arg) = ret.val
          /\ ret.op = "save_project" => get_project(ret.arg) = ret.val)
    /\ [][ /\ \A id \in TaskRowIds :
                 \/ WritesTask(id)
                 \/ SameRows(tasks, tasks', id)
                 \/ get_task(id)' = get_task(id)
           /\ \A id \in ProjectRowIds :
                 \/ WritesProject(id)
                 \/ SameRows(projects, projects', id)
                 \/ get_project(id)' = get_project(id)
         ]_vars

\* A DONE task with a completion time, tags and a description was saved
\* and, after the save of another task, reads back with all of them.
C31_Witness ==
    /\ ret.op = "save_task"
    /\ ret.arg = TaskUuids[2]
    /\ TaskUuids[1] \in TaskRowIds
    /\ get_task(TaskUuids[1]).status = "DONE"
    /\ get_task(TaskUuids[1]).completed_at = Time(1)
    /\ get_task(TaskUuids[1]).tags = << <<"x">>, <<>> >>
    /\ get_task(TaskUuids[1]).description = <<"d">>

----------------------------------------------------------------------------
\* Properties of the positions, checked under SpecPositions, and of the
\* selection, checked under SpecTui.

\* The position a row of the tasks table holds.
PositionOf(row) == Member(row.data, "position")

\* The rows a table gained in the step that made it from an earlier one.
AddedRows(before, after) ==
    {r \in {after[i] : i \in DOMAIN after} :
        \A i \in DOMAIN before : before[i].id # r.id}

\* C32: with every task created by cmd_add_task or the add-task dialog and
\* afterwards only edited, toggled, cycled or deleted, the tasks stored for
\* one project have pairwise distinct positions, and a task just added has
\* a position above that of every task stored for its project before.
C32_DistinctPositions ==
    /\ [](\A i, j \in DOMAIN tasks :
             i # j /\ tasks[i].project_id = tasks[j].project_id =>
                PositionOf(tasks[i]) # PositionOf(tasks[j]))
    /\ [][ \A new \in AddedRows(tasks, tasks') :
              \A i \in DOMAIN tasks :
                 tasks[i].project_id = new.project_id =>
                    PositionOf(new) > PositionOf(tasks[i]) ]_vars

\* Three tasks were created, one is deleted, and the dialog has just added
\* the third to a project that holds another task.
C32_Witness ==
    /\ ret.op = "action_add_task"
    /\ ret.arg = TaskUuids[3]
    /\ Len(tasks) = 2
    /\ tasks[1].project_id = tasks[2].project_id
    /\ \E p \in {PositionOf(tasks[1]), PositionOf(tasks[2])} : p > 0

\* C33: after every handler of the application the selection indexes are in
\* range: 0 <= current_project_idx < len(_projects) unless _projects is
\* empty, and 0 <= current_task_idx < len(_tasks) unless _tasks is empty.
C33_SelectionInRange ==
    /\ app._projects # <<>> =>
          app.current_project_idx \in 0..(Len(app._projects) - 1)
    /\ app._tasks # <<>> =>
          app.current_task_idx \in 0..(Len(app._tasks) - 1)

\* The second task was selected below the first, which is not complete and
\* has the lowest position, and was deleted: the selection is on the first.
C33_Witness ==
    /\ ret.op = "action_delete_task"
    /\ ret.arg = TaskUuids[2]
    /\ Len(app._tasks) = 1
    /\ app._tasks[1].id = TaskUuids[1]
    /\ ~is_complete(app._tasks[1])
    /\ app.current_task_idx = 0
    /\ Len(app._projects) = 2

----------------------------------------------------------------------------
\* Properties of the statistics of cancelled tasks, checked under SpecCancel.

\* The fraction <<numerator, denominator>> is below 100.
Below100(pct) ==
    IF pct[2] > 0 THEN pct[1] < 100 * pct[2] ELSE pct[1] > 100 * pct[2]

\* C34: get_project_stats counts CANCELLED tasks in todo_tasks and their
\* story points in total_points, never in done_tasks or done_points:
\* todo_tasks is the number of TODO tasks plus the number of CANCELLED
\* tasks, and a project whose tasks are all DONE or CANCELLED, one at least
\* CANCELLED, has a completion_pct below 100.
C34_CancelledCountsAsTodo ==
    \A project_id \in ProjectRowIds :
        LET stats == get_project_stats(project_id)
            todo == RowsWithStatus(project_id, "todo")
            done == RowsWithStatus(project_id, "done")
            cancelled == RowsWithStatus(project_id, "cancelled")
        IN  /\ stats.todo_tasks = Cardinality(todo) + Cardinality(cancelled)
            /\ stats.total_points = PointsOf(RowsOf(project_id))
            /\ stats.done_tasks = Cardinality(done)
            /\ stats.done_points = PointsOf(done)
            /\ (cancelled # {} /\ RowsOf(project_id) = done \cup cancelled)
                  => Below100(stats.completion_pct)

====
